---- MODULE Spec2Model ----
(***************************************************************************)
(* gosh: the job table (package jobs) and the pipeline executor (package   *)
(* executor).                                                              *)
(*                                                                         *)
(* The job table is modelled at the granularity of its shared-memory       *)
(* accesses: the shell's read-eval loop is one caller thread that runs one *)
(* job-control operation at a time, and every job owns one monitor         *)
(* goroutine.  Each action is one lock-protected section, one unlocked     *)
(* read of job.State, one signal or one return of Process.Wait, so the     *)
(* monitor interleaves with an operation exactly where the code lets it.   *)
(***************************************************************************)
EXTENDS Integers, Sequences, FiniteSets, TLC

\* ------------------------------------------------------------------ bounds
MaxJobs == 2        \* AddJob calls explored
MaxLive == 1        \* jobs whose monitor goroutine has not finished, at any one time
MaxExit == 1        \* natural exit codes are 0..MaxExit

\* ------------------------------------------------------- package jobs: data
JobRunning == "Running"
JobStopped == "Stopped"
JobDone == "Done"

Nil == 0            \* the nil *Job; ids start at 1

VARIABLES
    jobs,       \* JobManager.jobs: the keys of the id -> *Job map
    job,        \* the Job objects, by ID (they outlive their map entry)
    nextID,     \* JobManager.nextID
    proc,       \* the processes handed to AddJob, by pid
    nextPid,    \* the pid the next started process gets
    mon,        \* the monitorJob goroutine of each job
    caller,     \* the job-control call the shell thread is in, or has returned from
    issued,     \* the ids AddJob has returned, in call order
    shell,      \* the read-eval loop: "prompt", "ran", "exited" or "crashed"
    exec,       \* the ExecutePipeline call the loop has just made
    notices,    \* the job numbers of the job-start notices printed so far
    listing,    \* the PrintJobs call: jobs still to print, lines printed
    hist,       \* the shell's History: commands and currentPos
    accepted,   \* every command History.Add has appended, in order
    call,       \* the last call made on the History and what it returned
    histFile,   \* the history file
    loaded,     \* the fresh History the last call loaded, if it was Load
    cmdline,    \* the command line handed to the parser
    parsed,     \* the parser call made on it and the Command or Pipeline it returned
    stdin,      \* standard input: whether it is a terminal, the bytes still to come
    loop,       \* main's loop: where it is, the line being edited, what ReadLine returned
    mutex       \* JobManager.mutex: the thread that holds it for writing, the readers

tableVars == <<jobs, job, nextID, proc, mon, caller, issued>>
execVars == <<shell, exec, notices>>
histVars == <<hist, accepted, call, histFile, loaded>>
parseVars == <<cmdline, parsed>>
loopVars == <<stdin, loop>>
restVars == <<parseVars, loopVars, mutex>>
notParseVars == <<tableVars, nextPid, execVars, listing, histVars, loopVars, mutex>>
vars == <<jobs, job, nextID, proc, nextPid, mon, caller, issued, shell, exec, notices,
          listing, hist, accepted, call, histFile, loaded, cmdline, parsed,
          stdin, loop, mutex>>

\* op, id: the call; pc: where it is; seen: the job.State its check read;
\* code: the exit code its Wait returned; err: what it returned.
Idle == [op |-> "none", id |-> 0, pc |-> "idle", seen |-> "none", code |-> 0, err |-> "nil"]

\* No ExecutePipeline call to look at.
NoCall == [p |-> [Commands |-> <<>>, Background |-> FALSE], commands |-> <<>>,
           cont |-> TRUE, panic |-> FALSE, wired |-> FALSE, cmds |-> <<>>, events |-> <<>>]

\* No PrintJobs call yet.
NoListing == [snap |-> {}, lines |-> {}]

\* history.New with no history file to load: part of main's start-up.
New == [commands |-> <<>>, currentPos |-> -1]

NoHistoryCall == [op |-> "none", val |-> <<>>, k |-> 0, err |-> FALSE]
NoFile == [exists |-> FALSE, bytes |-> <<>>]
NoHistory == [made |-> FALSE, commands |-> <<>>, currentPos |-> -1]

\* No parser call yet.
NoParse == [fn |-> "none", cmd |-> <<>>, pipeline |-> <<>>]

\* main has not started.
NoStdin == [tty |-> FALSE, bytes |-> <<>>]
NotStarted == [pc |-> "start", buf |-> <<>>, line |-> <<>>, err |-> "nil", why |-> "none"]

NewJobManager ==
    /\ jobs = {}
    /\ job = <<>>
    /\ nextID = 1

Init ==
    /\ NewJobManager
    /\ proc = <<>>
    /\ nextPid = 1
    /\ mon = <<>>
    /\ caller = Idle
    /\ issued = <<>>
    /\ shell = "prompt"
    /\ exec = NoCall
    /\ notices = <<>>
    /\ listing = NoListing
    /\ hist = New
    /\ accepted = <<>>
    /\ call = NoHistoryCall
    /\ histFile = NoFile
    /\ loaded = NoHistory
    /\ cmdline = <<>>
    /\ parsed = NoParse
    /\ stdin = NoStdin
    /\ loop = NotStarted
    /\ mutex = [w |-> -1, r |-> {}]

\* ------------------------------------------------------------ the processes
ExitCodes == 0..MaxExit

\* A running process exits by itself with code c.
ProcExit(pid, c) ==
    /\ pid \in DOMAIN proc
    /\ proc[pid].status = "running"
    /\ proc' = [proc EXCEPT ![pid] = [status |-> "exited", code |-> c]]
    /\ UNCHANGED <<jobs, job, nextID, nextPid, mon, caller, issued, shell, exec, notices, listing, histVars, restVars>>

\* What a delivered signal does to a process.  A terminated process reports
\* ExitCode() = -1; dies is FALSE when the terminate signal is handled,
\* ignored or still pending on a stopped process.
Signalled(p, sig, dies) ==
    CASE sig = "SIGSTOP" /\ p.status = "running" -> [p EXCEPT !.status = "stopped"]
      [] sig = "SIGCONT" /\ p.status = "stopped" -> [p EXCEPT !.status = "running"]
      [] sig = "SIGTERM" /\ p.status \in {"running", "stopped"} /\ dies ->
            [status |-> "exited", code |-> -1]
      [] OTHER -> p

\* syscall.Kill(-job.PGID, sig): ok is whether the call returned nil.
Kill(pid, sig, ok, dies) ==
    IF ok THEN proc' = [proc EXCEPT ![pid] = Signalled(proc[pid], sig, dies)]
          ELSE UNCHANGED proc

\* Process.Wait returns once the process has exited: to the first waiter with
\* the exit status (the process is reaped and the kernel forgets the status),
\* to any other with an error.
WaitReturns(pid) == proc[pid].status \in {"exited", "reaped"}
WaitOk(pid) == proc[pid].status = "exited"
Reaped(pid) == [proc EXCEPT ![pid] = [status |-> "reaped", code |-> 0]]

\* ----------------------------------------------------------------- AddJob
AddJobNextIDReset(n) == IF jobs = {} THEN 1 ELSE n + 1

AddJobNextIDStuck(n) == n

\* line 77: jm.nextID++
AddJobNextID(n) == n + 1

\* The monitor goroutine of job id has not returned yet.
Live(id) == mon[id].pc # "done"

AddJob ==
    /\ caller.pc = "idle"
    /\ nextID <= MaxJobs
    /\ Cardinality({id \in DOMAIN mon : Live(id)}) < MaxLive
    /\ LET new == [ID |-> nextID, PID |-> nextPid, PGID |-> nextPid,
                   State |-> JobRunning, ExitCode |-> 0]
       IN /\ job' = [i \in DOMAIN job \cup {nextID} |->
                        IF i = nextID THEN new ELSE job[i]]
          /\ jobs' = jobs \cup {nextID}
          /\ issued' = Append(issued, new.ID)
    /\ nextID' = AddJobNextID(nextID)
    /\ proc' = [p \in DOMAIN proc \cup {nextPid} |->
                   IF p = nextPid THEN [status |-> "running", code |-> 0] ELSE proc[p]]
    /\ nextPid' = nextPid + 1
    /\ mon' = [i \in DOMAIN mon \cup {nextID} |->
                   IF i = nextID THEN [pc |-> "wait", code |-> 0] ELSE mon[i]]
    /\ UNCHANGED <<caller, shell, exec, notices, listing, histVars, restVars>>

GetJob(id) == IF id \in jobs THEN id ELSE Nil

\* Garbage collection.  A Job is referred to by its map entry and by its
\* monitor goroutine (a call in progress got its pointer from the map, and the
\* map loses entries only between calls).  Once it is out of the map and its
\* monitor has returned nothing can read or write it again: the object, the
\* ended goroutine and the reaped process leave the state.
Referenced(keys, m) == {id \in DOMAIN m : id \in keys \/ m[id].pc # "done"}

Restrict(f, S) == [x \in S |-> f[x]]

Collect(keys, j, m, p) ==
    LET keep == Referenced(keys, m)
    IN /\ job' = Restrict(j, keep)
       /\ mon' = Restrict(m, keep)
       /\ proc' = Restrict(p, {j[id].PID : id \in keep})

RemoveJob(id) ==
    /\ caller.pc = "idle"
    /\ id \in jobs
    /\ jobs' = jobs \ {id}
    /\ Collect(jobs', job, mon, proc)
    /\ UNCHANGED <<nextID, nextPid, caller, issued, shell, exec, notices, listing, histVars, restVars>>

CleanupDoneJobs ==
    /\ caller.pc = "idle"
    /\ \E id \in jobs : job[id].State = JobDone
    /\ jobs' = {id \in jobs : job[id].State # JobDone}
    /\ Collect(jobs', job, mon, proc)
    /\ UNCHANGED <<nextID, nextPid, caller, issued, shell, exec, notices, listing, histVars, restVars>>

\* --------------------------------------------------------------- monitorJob
\* part_005 lines 241-244
MonitorWait(id) ==
    /\ id \in DOMAIN mon
    /\ mon[id].pc = "wait"
    /\ WaitReturns(job[id].PID)
    /\ IF WaitOk(job[id].PID)
       THEN /\ mon' = [mon EXCEPT ![id] = [pc |-> "update", code |-> proc[job[id].PID].code]]
            /\ proc' = Reaped(job[id].PID)
            /\ UNCHANGED job
       ELSE Collect(jobs, job, [mon EXCEPT ![id].pc = "done"], proc)
    /\ UNCHANGED <<jobs, nextID, nextPid, caller, issued, shell, exec, notices, listing, histVars, restVars>>

MonitorUpdateCodeOnly(id) ==
    /\ id \in DOMAIN mon
    /\ mon[id].pc = "update"
    /\ Collect(jobs,
               [job EXCEPT ![id].ExitCode = mon[id].code],
               [mon EXCEPT ![id] = [pc |-> "done", code |-> 0]],
               proc)
    /\ UNCHANGED <<jobs, nextID, nextPid, caller, issued, shell, exec, notices, listing, histVars, restVars>>

\* The monitor deletes the entry of the job it has marked Done.
MonitorUpdateRemoving(id) ==
    /\ id \in DOMAIN mon
    /\ mon[id].pc = "update"
    /\ caller.id # id
    /\ jobs' = jobs \ {id}
    /\ Collect(jobs',
               [job EXCEPT ![id].State = JobDone, ![id].ExitCode = mon[id].code],
               [mon EXCEPT ![id] = [pc |-> "done", code |-> 0]],
               proc)
    /\ UNCHANGED <<nextID, nextPid, caller, issued, shell, exec, notices, listing, histVars, restVars>>

\* part_005 lines 246-251
MonitorUpdate(id) ==
    /\ id \in DOMAIN mon
    /\ mon[id].pc = "update"
    /\ Collect(jobs,
               [job EXCEPT ![id].State = JobDone, ![id].ExitCode = mon[id].code],
               [mon EXCEPT ![id] = [pc |-> "done", code |-> 0]],
               proc)
    /\ UNCHANGED <<jobs, nextID, nextPid, caller, issued, shell, exec, notices, listing, histVars, restVars>>

\* ------------------------------------------------- the job-control operations
CallIds == 1..MaxJobs

\* The shell thread enters operation op on id.
Enter(op, id) == [Idle EXCEPT !.op = op, !.id = id]

Return(err) ==
    caller' = [Idle EXCEPT !.op = caller.op, !.id = caller.id, !.pc = "returned", !.err = err]

Goto(pc) == caller' = [caller EXCEPT !.pc = pc]

\* The caller takes the result (fgCommand and bgCommand print the error) and
\* the shell thread is free for the next call.
Returned ==
    /\ caller.pc = "returned"
    /\ caller' = Idle
    /\ UNCHANGED <<jobs, job, nextID, proc, nextPid, mon, issued, shell, exec, notices, listing, histVars, restVars>>

JobAlreadyDoneWrongState(state) == state = JobStopped

\* lines 132 and 171: the state BringToForeground and SendToBackground refuse.
JobAlreadyDone(state) == state = JobDone

\* A refused call drops the job from the map.
CheckDropping(op, id, refused, next) ==
    /\ caller.pc = "idle"
    /\ LET j == GetJob(id)
       IN /\ caller' = IF j = Nil
                       THEN [Enter(op, id) EXCEPT !.pc = "returned", !.err = "notfound"]
                       ELSE IF refused # ""
                       THEN [Enter(op, id) EXCEPT !.pc = "returned", !.err = refused]
                       ELSE [Enter(op, id) EXCEPT !.pc = next, !.seen = job[j].State]
          /\ jobs' = IF j # Nil /\ refused # "" THEN jobs \ {id} ELSE jobs
    /\ UNCHANGED <<job, nextID, proc, nextPid, mon, issued, shell, exec, notices, listing, histVars, restVars>>

\* The entry of an operation: GetJob under the read lock, then the unlocked
\* test of job.State.  refused is the error of the test, "" when it passes.
Check(op, id, refused, next) ==
    /\ caller.pc = "idle"
    /\ LET j == GetJob(id)
       IN caller' = IF j = Nil
                    THEN [Enter(op, id) EXCEPT !.pc = "returned", !.err = "notfound"]
                    ELSE IF refused # ""
                    THEN [Enter(op, id) EXCEPT !.pc = "returned", !.err = refused]
                    ELSE [Enter(op, id) EXCEPT !.pc = next, !.seen = job[j].State]
    /\ UNCHANGED <<jobs, job, nextID, proc, nextPid, mon, issued, shell, exec, notices, listing, histVars, restVars>>

\* BringToForeground, lines 127-134
FgCheck(id) ==
    Check("fg", id,
          IF id \in jobs /\ JobAlreadyDone(job[id].State) THEN "done" ELSE "", "cont")

\* lines 136-142: a second read of job.State; a Stopped job is continued.
FgContinue ==
    /\ caller.op = "fg" /\ caller.pc = "cont"
    /\ IF job[caller.id].State = JobStopped
       THEN \E ok \in BOOLEAN :
                /\ Kill(job[caller.id].PGID, "SIGCONT", ok, FALSE)
                /\ IF ok THEN Goto("setrun") ELSE Return("signal")
       ELSE Goto("setrun") /\ UNCHANGED proc
    /\ UNCHANGED <<jobs, job, nextID, nextPid, mon, issued, shell, exec, notices, listing, histVars, restVars>>

FgSetRunningSkipped ==
    /\ caller.op = "fg" /\ caller.pc = "setrun"
    /\ Goto("wait")
    /\ UNCHANGED <<jobs, job, nextID, proc, nextPid, mon, issued, shell, exec, notices, listing, histVars, restVars>>

\* lines 144-147: the state is set to Running whatever it has become.
FgSetRunning ==
    /\ caller.op = "fg" /\ caller.pc = "setrun"
    /\ job' = [job EXCEPT ![caller.id].State = JobRunning]
    /\ Goto("wait")
    /\ UNCHANGED <<jobs, nextID, proc, nextPid, mon, issued, shell, exec, notices, listing, histVars, restVars>>

\* lines 149-153: job.Process.Wait(), on the process the monitor waits on too.
FgWait ==
    /\ caller.op = "fg" /\ caller.pc = "wait"
    /\ WaitReturns(job[caller.id].PID)
    /\ IF WaitOk(job[caller.id].PID)
       THEN /\ caller' = [caller EXCEPT !.pc = "setdone",
                                        !.code = proc[job[caller.id].PID].code]
            /\ proc' = Reaped(job[caller.id].PID)
       ELSE /\ Return("wait")
            /\ UNCHANGED proc
    /\ UNCHANGED <<jobs, job, nextID, nextPid, mon, issued, shell, exec, notices, listing, histVars, restVars>>

\* lines 155-161
FgSetDone ==
    /\ caller.op = "fg" /\ caller.pc = "setdone"
    /\ job' = [job EXCEPT ![caller.id].State = JobDone, ![caller.id].ExitCode = caller.code]
    /\ Return("nil")
    /\ UNCHANGED <<jobs, nextID, proc, nextPid, mon, issued, shell, exec, notices, listing, histVars, restVars>>

BringToForeground ==
    \/ \E id \in CallIds : FgCheck(id)
    \/ FgContinue
    \/ FgSetRunning
    \/ FgWait
    \/ FgSetDone

\* SendToBackground, lines 166-173
BgCheck(id) ==
    Check("bg", id,
          IF id \in jobs /\ JobAlreadyDone(job[id].State) THEN "done" ELSE "", "cont")

\* lines 175-181 and 187: only a Stopped job is signalled.
BgContinue ==
    /\ caller.op = "bg" /\ caller.pc = "cont"
    /\ IF job[caller.id].State = JobStopped
       THEN \E ok \in BOOLEAN :
                /\ Kill(job[caller.id].PGID, "SIGCONT", ok, FALSE)
                /\ IF ok THEN Goto("setrun") ELSE Return("signal")
       ELSE Return("nil") /\ UNCHANGED proc
    /\ UNCHANGED <<jobs, job, nextID, nextPid, mon, issued, shell, exec, notices, listing, histVars, restVars>>

BgSetRunningSkipped ==
    /\ caller.op = "bg" /\ caller.pc = "setrun"
    /\ Return("nil")
    /\ UNCHANGED <<jobs, job, nextID, proc, nextPid, mon, issued, shell, exec, notices, listing, histVars, restVars>>

\* lines 182-187
BgSetRunning ==
    /\ caller.op = "bg" /\ caller.pc = "setrun"
    /\ job' = [job EXCEPT ![caller.id].State = JobRunning]
    /\ Return("nil")
    /\ UNCHANGED <<jobs, nextID, proc, nextPid, mon, issued, shell, exec, notices, listing, histVars, restVars>>

SendToBackground ==
    \/ \E id \in CallIds : BgCheck(id)
    \/ BgContinue
    \/ BgSetRunning

StopJobAllowedNotDone(state) == state # JobDone

\* StopJob, line 197: the state that lets the call go on.
StopJobAllowed(state) == state = JobRunning

\* lines 192-199
StopCheck(id) ==
    Check("stop", id,
          IF id \in jobs /\ ~StopJobAllowed(job[id].State) THEN "notrunning" ELSE "",
          "signal")

\* lines 201-205
StopSignal ==
    /\ caller.op = "stop" /\ caller.pc = "signal"
    /\ \E ok \in BOOLEAN :
          /\ Kill(job[caller.id].PGID, "SIGSTOP", ok, FALSE)
          /\ IF ok THEN Goto("set") ELSE Return("signal")
    /\ UNCHANGED <<jobs, job, nextID, nextPid, mon, issued, shell, exec, notices, listing, histVars, restVars>>

\* lines 207-211
StopSet ==
    /\ caller.op = "stop" /\ caller.pc = "set"
    /\ job' = [job EXCEPT ![caller.id].State = JobStopped]
    /\ Return("nil")
    /\ UNCHANGED <<jobs, nextID, proc, nextPid, mon, issued, shell, exec, notices, listing, histVars, restVars>>

StopJob ==
    \/ \E id \in CallIds : StopCheck(id)
    \/ StopSignal
    \/ StopSet

KillJobRefusedNotRunning(state) == state # JobRunning

\* KillJob, line 221: the state that makes the call fail.
KillJobRefused(state) == state = JobDone

\* lines 216-223
KillCheck(id) ==
    Check("kill", id,
          IF id \in jobs /\ KillJobRefused(job[id].State) THEN "done" ELSE "", "signal")

KillSignalMarking ==
    /\ caller.op = "kill" /\ caller.pc = "signal"
    /\ \E ok \in BOOLEAN, dies \in BOOLEAN :
          /\ Kill(job[caller.id].PGID, "SIGTERM", ok, dies)
          /\ IF ok THEN Goto("set") /\ UNCHANGED job
                   ELSE /\ Return("signal")
                        /\ job' = [job EXCEPT ![caller.id].State = JobDone,
                                              ![caller.id].ExitCode = -1]
    /\ UNCHANGED <<jobs, nextID, nextPid, mon, issued, shell, exec, notices, listing, histVars, restVars>>

\* lines 225-229
KillSignal ==
    /\ caller.op = "kill" /\ caller.pc = "signal"
    /\ \E ok \in BOOLEAN, dies \in BOOLEAN :
          /\ Kill(job[caller.id].PGID, "SIGTERM", ok, dies)
          /\ IF ok THEN Goto("set") ELSE Return("signal")
    /\ UNCHANGED <<jobs, job, nextID, nextPid, mon, issued, shell, exec, notices, listing, histVars, restVars>>

\* lines 231-236
KillSet ==
    /\ caller.op = "kill" /\ caller.pc = "set"
    /\ job' = [job EXCEPT ![caller.id].State = JobDone, ![caller.id].ExitCode = -1]
    /\ Return("nil")
    /\ UNCHANGED <<jobs, nextID, proc, nextPid, mon, issued, shell, exec, notices, listing, histVars, restVars>>

KillJob ==
    \/ \E id \in CallIds : KillCheck(id)
    \/ KillSignal
    \/ KillSet

\* ------------------------------------------------------ package executor
MaxStages == 3      \* stages of a pipeline
MaxPid == 2         \* the loop reads another line while nextPid <= MaxPid

\* part_009 lines 14-24
builtinCommands == {"exit", "cd", "pwd", "help", "env", "history", "jobs", "fg", "bg"}

IsBuiltinNone(command) == FALSE

\* part_009 lines 43-46
IsBuiltin(command) == command \in builtinCommands

BuiltinExecuteAlways(command) == TRUE

\* builtins.Execute: only exit returns false.
BuiltinExecute(command) == command # "exit"

\* The machine the shell runs on: the programs exec finds and their exit
\* status, the files that can be opened for reading and for writing.
Programs == {"ls", "false"}
ExitStatus(name) == IF name = "false" THEN 1 ELSE 0
ReadableFiles == {"in.txt"}
WritableFiles == {"out.txt"}

\* The Commands ParsePipeline builds: it never sets Command.Background.
Cmd(args, in, out, app) ==
    [Args |-> args, InputFile |-> in, OutputFile |-> out, AppendOutput |-> app,
     Background |-> FALSE]

Stages ==
    { Cmd(<<>>, "", "", FALSE),                  \* ">"
      Cmd(<<>>, "", "out.txt", FALSE),           \* "> out.txt"
      Cmd(<<"cd">>, "", "", FALSE),
      Cmd(<<"exit">>, "", "", FALSE),
      Cmd(<<"ls">>, "", "", FALSE),
      Cmd(<<"ls">>, "in.txt", "", FALSE),
      Cmd(<<"ls">>, "missing.txt", "", FALSE),
      Cmd(<<"ls">>, "", "out.txt", FALSE),
      Cmd(<<"ls">>, "", "out.txt", TRUE),
      Cmd(<<"ls">>, "", "/ro/out.txt", FALSE),
      Cmd(<<"false">>, "", "", FALSE),
      Cmd(<<"nosuch">>, "", "", FALSE) }

Pipelines ==
    [Commands : UNION {[1..n -> Stages] : n \in 0..MaxStages}, Background : BOOLEAN]

\* How many os.Pipe calls succeed before the descriptors run out.
PipeBudgets == {0, 1, MaxStages}

Ev(e, stage, file, id, pid) == [e |-> e, stage |-> stage, file |-> file, id |-> id, pid |-> pid]

\* os.Open(cmd.InputFile): "inherit" is os.Stdin, "fail" an error.
OpenInput(cmd) ==
    IF cmd.InputFile = "" THEN "inherit"
    ELSE IF cmd.InputFile \in ReadableFiles THEN "file" ELSE "fail"

\* os.Create / os.OpenFile(cmd.OutputFile): "inherit" is os.Stdout.
OpenOutput(cmd) ==
    IF cmd.OutputFile = "" THEN "inherit"
    ELSE IF cmd.OutputFile \in WritableFiles THEN "file" ELSE "fail"

ClosesNothing(files) == <<>>

\* The deferred Close calls run at return, last opened first.
RECURSIVE Closes(_)
Closes(files) ==
    IF files = <<>> THEN <<>>
    ELSE <<Ev("close", files[Len(files)].stage, files[Len(files)].file, 0, 0)>>
         \o Closes(SubSeq(files, 1, Len(files) - 1))

Result(p, commands, cont, panic, wired, cmds, events) ==
    [p |-> p, commands |-> commands, cont |-> cont, panic |-> panic, wired |-> wired,
     cmds |-> cmds, events |-> events]

\* ExecuteCommand, part_007 lines 42-109; pid is the pid a started process gets.
ExecuteCommand(p, cmd, pid) ==
    LET commands == <<cmd>>
        in == OpenInput(cmd)
        out == OpenOutput(cmd)
        inFile == IF in = "file" THEN <<[stage |-> 1, file |-> cmd.InputFile]>> ELSE <<>>
        outFile == IF out = "file" THEN <<[stage |-> 1, file |-> cmd.OutputFile]>> ELSE <<>>
        opens == [i \in 1..Len(inFile \o outFile) |->
                     Ev("open", 1, (inFile \o outFile)[i].file, 0, 0)]
        c == [stage |-> 1, name |-> IF cmd.Args = <<>> THEN "" ELSE cmd.Args[1],
              stdin |-> in, stdout |-> out, pid |-> pid, started |-> FALSE, waited |-> FALSE]
        canStart == c.name \in Programs
        started == [c EXCEPT !.started = TRUE]
    IN IF Len(cmd.Args) = 0 THEN Result(p, commands, TRUE, FALSE, FALSE, <<>>, <<>>)
       ELSE IF IsBuiltin(c.name)
       THEN Result(p, commands, BuiltinExecute(c.name), FALSE, FALSE, <<>>,
                   <<Ev("builtin", 1, c.name, 0, 0)>>)
       ELSE IF in = "fail"
       THEN Result(p, commands, TRUE, FALSE, FALSE, <<>>,
                   <<Ev("error", 1, cmd.InputFile, 0, 0)>>)
       ELSE IF out = "fail"
       THEN Result(p, commands, TRUE, FALSE, FALSE, <<>>,
                   opens \o <<Ev("error", 1, cmd.OutputFile, 0, 0)>> \o Closes(inFile))
       ELSE IF ~canStart
       THEN Result(p, commands, TRUE, FALSE, TRUE, <<c>>,
                   opens \o <<Ev("error", 1, c.name, 0, 0)>> \o Closes(inFile \o outFile))
       ELSE IF cmd.Background
       THEN Result(p, commands, TRUE, FALSE, TRUE, <<started>>,
                   opens \o <<Ev("start", 1, c.name, 0, pid), Ev("notice", 1, "", 1, pid)>>
                         \o Closes(inFile \o outFile))
       ELSE Result(p, commands, TRUE, FALSE, TRUE, <<[started EXCEPT !.waited = TRUE]>>,
                   opens \o <<Ev("start", 1, c.name, 0, pid), Ev("wait", 1, c.name, 0, pid)>>
                         \o (IF ExitStatus(c.name) # 0
                             THEN <<Ev("error", 1, c.name, 0, 0)>> ELSE <<>>)
                         \o Closes(inFile \o outFile))

\* part_007 lines 143 and 158: the stages whose redirection fields are read.
HonorsInput(i, n) == i = 1
HonorsOutput(i, n) == i = n

\* part_007 lines 128-183, one iteration of the loop over pipeline.Commands.
\* st: the exec.Cmd values built so far, the files opened, the events, and
\* whether the loop has returned.
BuildStage(p, i, st) ==
    LET cmd == p.Commands[i]
        n == Len(p.Commands)
        in == IF HonorsInput(i, n) THEN OpenInput(cmd) ELSE "nil"
        out == IF HonorsOutput(i, n) THEN OpenOutput(cmd) ELSE "nil"
        inFile == IF in = "file" THEN <<[stage |-> i, file |-> cmd.InputFile]>> ELSE <<>>
        outFile == IF out = "file" THEN <<[stage |-> i, file |-> cmd.OutputFile]>> ELSE <<>>
        c == [stage |-> i, name |-> cmd.Args[1], stdin |-> in, stdout |-> out,
              pid |-> 0, started |-> FALSE, waited |-> FALSE]
    IN IF Len(cmd.Args) = 0 THEN st
       ELSE IF IsBuiltin(cmd.Args[1])
       THEN [st EXCEPT !.returned = TRUE,
                       !.events = @ \o <<Ev("error", i, cmd.Args[1], 0, 0)>>]
       ELSE IF in = "fail"
       THEN [st EXCEPT !.returned = TRUE,
                       !.events = @ \o <<Ev("error", i, cmd.InputFile, 0, 0)>>]
       ELSE IF out = "fail"
       THEN [st EXCEPT !.returned = TRUE,
                       !.files = @ \o inFile,
                       !.events = @ \o [k \in 1..Len(inFile) |-> Ev("open", i, inFile[k].file, 0, 0)]
                                    \o <<Ev("error", i, cmd.OutputFile, 0, 0)>>]
       ELSE [st EXCEPT !.cmds = Append(@, c),
                       !.files = @ \o inFile \o outFile,
                       !.events = @ \o [k \in 1..Len(inFile \o outFile) |->
                                           Ev("open", i, (inFile \o outFile)[k].file, 0, 0)]]

\* Every stage is started as soon as its exec.Cmd is built.
RECURSIVE BuildStarting(_, _, _)
BuildStarting(p, i, st) ==
    IF i > Len(p.Commands) \/ st.returned THEN st
    ELSE LET b == BuildStage(p, i, st)
         IN BuildStarting(p, i + 1,
               IF Len(b.cmds) > Len(st.cmds)
               THEN [b EXCEPT !.events = @ \o <<Ev("start", i, p.Commands[i].Args[1], 0, 0)>>]
               ELSE b)

RECURSIVE Build(_, _, _)
Build(p, i, st) ==
    IF i > Len(p.Commands) \/ st.returned THEN st
    ELSE Build(p, i + 1, BuildStage(p, i, st))

NumPipesShort(k) == k - 2

\* part_007 line 186: the pipes made for k exec.Cmd values.
NumPipes(k) == k - 1

\* part_007 lines 185-193: cmds[i].StdoutPipe() feeds cmds[i+1].Stdin.
\* StdoutPipe fails when Stdout is already set and when os.Pipe fails.
RECURSIVE Wire(_, _, _)
Wire(st, i, budget) ==
    IF st.returned \/ i > NumPipes(Len(st.cmds)) THEN st
    ELSE IF st.cmds[i].stdout # "nil" \/ budget = 0
    THEN [st EXCEPT !.returned = TRUE,
                    !.events = @ \o <<Ev("error", st.cmds[i].stage, "pipe", 0, 0)>>]
    ELSE Wire([st EXCEPT !.cmds[i].stdout = "pipe",
                         !.cmds[i + 1].stdin = "pipe",
                         !.events = @ \o <<Ev("pipe", st.cmds[i].stage, "", 0, 0)>>],
              i + 1, budget - 1)

\* The stages built before a failed set-up are started all the same.
RECURSIVE StartAllRegardless(_, _, _)
StartAllRegardless(st, i, pid) ==
    IF i > Len(st.cmds) THEN st
    ELSE StartAllRegardless([st EXCEPT !.cmds[i].started = TRUE,
                                       !.cmds[i].pid = pid,
                                       !.events = @ \o <<Ev("start", st.cmds[i].stage,
                                                            st.cmds[i].name, 0, pid)>>],
                            i + 1, pid + 1)

\* part_007 lines 195-202: Start in order, return at the first failure.
RECURSIVE StartAll(_, _, _)
StartAll(st, i, pid) ==
    IF st.returned \/ i > Len(st.cmds) THEN st
    ELSE IF st.cmds[i].name \notin Programs
    THEN [st EXCEPT !.returned = TRUE,
                    !.events = @ \o <<Ev("error", st.cmds[i].stage, st.cmds[i].name, 0, 0)>>]
    ELSE StartAll([st EXCEPT !.cmds[i].started = TRUE,
                             !.cmds[i].pid = pid,
                             !.events = @ \o <<Ev("start", st.cmds[i].stage,
                                                  st.cmds[i].name, 0, pid)>>],
                  i + 1, pid + 1)

\* The waits stop at the first stage that exits non-zero.
RECURSIVE WaitAllStopping(_, _)
WaitAllStopping(st, i) ==
    IF i > Len(st.cmds) THEN st
    ELSE LET w == [st EXCEPT !.cmds[i].waited = TRUE,
                             !.events = @ \o <<Ev("wait", st.cmds[i].stage, st.cmds[i].name,
                                                  0, st.cmds[i].pid)>>]
         IN IF ExitStatus(st.cmds[i].name) # 0
            THEN [w EXCEPT !.events = @ \o <<Ev("error", st.cmds[i].stage,
                                                st.cmds[i].name, 0, 0)>>]
            ELSE WaitAllStopping(w, i + 1)

\* part_007 lines 210-216: Wait in order, report and go on.
RECURSIVE WaitAll(_, _)
WaitAll(st, i) ==
    IF i > Len(st.cmds) THEN st
    ELSE WaitAll([st EXCEPT !.cmds[i].waited = TRUE,
                            !.events = @ \o <<Ev("wait", st.cmds[i].stage, st.cmds[i].name,
                                                 0, st.cmds[i].pid)>>
                                         \o (IF ExitStatus(st.cmds[i].name) # 0
                                             THEN <<Ev("error", st.cmds[i].stage,
                                                       st.cmds[i].name, 0, 0)>>
                                             ELSE <<>>)],
                 i + 1)

\* ExecutePipeline, part_007 lines 113-219.
ExecutePipelineResult(p, budget, pid) ==
    LET n == Len(p.Commands)
        st0 == [cmds |-> <<>>, files |-> <<>>, events |-> <<>>, returned |-> FALSE]
        built == Build(p, 1, st0)
        wired == Wire(built, 1, budget)
        started == StartAll(wired, 1, pid)
        tail == Len(started.cmds)
        done(st, panic) ==
            Result(p, p.Commands, TRUE, panic, ~wired.returned, st.cmds,
                   st.events \o Closes(st.files))
    IN IF n = 0 THEN Result(p, p.Commands, TRUE, FALSE, FALSE, <<>>, <<>>)
       ELSE IF n = 1
       THEN \* line 121 writes the pipeline's flag into the Command
            LET cmd == [p.Commands[1] EXCEPT !.Background = p.Background]
            IN ExecuteCommand(p, cmd, pid)
       ELSE IF started.returned THEN done(started, FALSE)
       ELSE IF p.Background
       THEN IF tail = 0
            THEN \* line 206: cmds[len(cmds)-1] with no exec.Cmd, index out of range
                 done(started, TRUE)
            ELSE done([started EXCEPT !.events =
                          @ \o <<Ev("notice", started.cmds[tail].stage, "", 1,
                                    started.cmds[tail].pid)>>], FALSE)
       ELSE done(WaitAll(started, 1), FALSE)

Started(r) == {i \in DOMAIN r.cmds : r.cmds[i].started}

\* The job numbers of the notices among the events, in the order printed.
RECURSIVE NoticeIds(_)
NoticeIds(events) ==
    IF events = <<>> THEN <<>>
    ELSE (IF events[1].e = "notice" THEN <<events[1].id>> ELSE <<>>)
         \o NoticeIds(Tail(events))

\* One turn of main's loop (main.go lines 83-109) from the parsed pipeline on:
\* ExecutePipeline runs to its return, or panics and takes the shell down.
\* Nothing in it calls AddJob: the job table is left as it is.
ExecutePipeline ==
    /\ shell = "prompt"
    /\ nextPid <= MaxPid
    /\ \E p \in Pipelines, budget \in PipeBudgets :
          exec' = ExecutePipelineResult(p, budget, nextPid)
    /\ nextPid' = nextPid + Cardinality(Started(exec'))
    /\ notices' = notices \o NoticeIds(exec'.events)
    /\ shell' = IF exec'.panic THEN "crashed"
                ELSE IF exec'.cont THEN "ran" ELSE "exited"
    /\ UNCHANGED <<tableVars, listing, histVars, restVars>>

\* main.go lines 83-84 and 106-108: back to ReadLine for the next line.
ReadLine ==
    /\ shell = "ran"
    /\ shell' = "prompt"
    /\ exec' = NoCall
    /\ UNCHANGED <<tableVars, nextPid, notices, listing, histVars, restVars>>

\* ------------------------------------------------------------- the listing
\* part_005 lines 105-116: the snapshot, taken under the read lock.
GetActiveJobs == {id \in jobs : job[id].State \in {JobRunning, JobStopped}}

\* PrintJobs lines 267-270: GetActiveJobs, and the return when it is empty.
PrintSnapshot ==
    /\ caller.pc = "idle"
    /\ listing' = [snap |-> GetActiveJobs, lines |-> {}]
    /\ caller' = [Enter("jobs", 0) EXCEPT !.pc = IF GetActiveJobs = {} THEN "returned"
                                                                     ELSE "print"]
    /\ UNCHANGED <<jobs, job, nextID, proc, nextPid, mon, issued, shell, exec, notices,
                   histVars, restVars>>

\* PrintJobs lines 272-280: one line per job of the snapshot, in the order the
\* map gave them; job.State is read here, with no lock held.
PrintLine ==
    /\ caller.op = "jobs" /\ caller.pc = "print"
    /\ \E id \in listing.snap :
          /\ listing' = [snap |-> listing.snap \ {id},
                         lines |-> listing.lines \cup {[id |-> id, status |-> job[id].State]}]
          /\ IF listing.snap = {id} THEN Return("nil") ELSE UNCHANGED caller
    /\ UNCHANGED <<jobs, job, nextID, proc, nextPid, mon, issued, shell, exec, notices,
                   histVars, restVars>>

PrintJobs ==
    \/ PrintSnapshot
    \/ PrintLine

\* ------------------------------------------------------ package history
maxSize == 2        \* History.maxSize
MaxAdds == 3        \* commands History.Add appends

\* A string is the sequence of its characters.
Space == {" ", "\n", "\r"}

RECURSIVE TrimLeft(_)
TrimLeft(s) == IF s # <<>> /\ s[1] \in Space THEN TrimLeft(Tail(s)) ELSE s

RECURSIVE TrimRight(_)
TrimRight(s) ==
    IF s # <<>> /\ s[Len(s)] \in Space THEN TrimRight(SubSeq(s, 1, Len(s) - 1)) ELSE s

TrimSpaceLeading(s) == TrimLeft(s)

\* strings.TrimSpace
TrimSpace(s) == TrimRight(TrimLeft(s))

\* The arguments Add is called with.
Inputs ==
    { <<>>, <<" ">>, <<"a">>, <<" ", "a", " ">>, <<"b">>, <<"a", "\n", "b">> }

TrimToMaxOldest(commands) ==
    IF Len(commands) > maxSize THEN SubSeq(commands, 1, maxSize) ELSE commands

\* history.go lines 58-60 (and 133-135)
TrimToMax(commands) ==
    IF Len(commands) > maxSize
    THEN SubSeq(commands, Len(commands) - maxSize + 1, Len(commands))
    ELSE commands

\* history.go lines 44-53: Add goes on to append.
Appends(h, command) ==
    /\ TrimSpace(command) # <<>>
    /\ ~(Len(h.commands) > 0 /\ h.commands[Len(h.commands)] = TrimSpace(command))

\* History.Add, history.go lines 43-63
AddResult(h, command) ==
    LET c == TrimSpace(command)
        kept == TrimToMax(Append(h.commands, c))
    IN IF c = <<>> THEN h
       ELSE IF ~Appends(h, command) THEN [h EXCEPT !.currentPos = Len(h.commands)]
       ELSE [commands |-> kept, currentPos |-> Len(kept)]

\* The History call just made: val is the string it took (Add) or returned
\* (Previous, Next); k counts the Previous calls made in a row since the
\* position was last put at the end.
HistoryCall(op, val, k, err) == [op |-> op, val |-> val, k |-> k, err |-> err]

HistoryAdd ==
    /\ Len(accepted) < MaxAdds
    /\ \E command \in Inputs :
          /\ hist' = AddResult(hist, command)
          /\ accepted' = IF Appends(hist, command)
                         THEN Append(accepted, TrimSpace(command)) ELSE accepted
          /\ call' = HistoryCall("add", command, 0, FALSE)
    /\ loaded' = NoHistory
    /\ UNCHANGED <<tableVars, nextPid, execVars, listing, restVars, histFile>>

\* The element currentPos points at, "" outside the slice: lines 75-79, 92-97.
At(h) ==
    IF h.currentPos >= 0 /\ h.currentPos < Len(h.commands)
    THEN h.commands[h.currentPos + 1] ELSE <<>>

PreviousPosUnclamped(pos) == pos - 1

\* history.go lines 71-73
PreviousPos(pos) == IF pos > 0 THEN pos - 1 ELSE pos

\* History.Previous, history.go lines 66-80
HistoryPrevious ==
    /\ LET moved == IF Len(hist.commands) = 0 THEN hist
                    ELSE [hist EXCEPT !.currentPos = PreviousPos(hist.currentPos)]
           atEnd == hist.currentPos = Len(hist.commands) \/ Len(hist.commands) = 0
           k == IF atEnd THEN 1
                ELSE IF call.op = "previous" /\ call.k > 0
                THEN (IF call.k > maxSize THEN call.k ELSE call.k + 1)
                ELSE 0
       IN /\ hist' = moved
          /\ call' = HistoryCall("previous",
                                 IF Len(hist.commands) = 0 THEN <<>> ELSE At(moved), k, FALSE)
    /\ loaded' = NoHistory
    /\ UNCHANGED <<tableVars, nextPid, execVars, listing, restVars, accepted, histFile>>

\* History.Next, history.go lines 83-98
HistoryNext ==
    /\ LET moved == IF Len(hist.commands) = 0 THEN hist
                    ELSE IF hist.currentPos < Len(hist.commands)
                    THEN [hist EXCEPT !.currentPos = hist.currentPos + 1]
                    ELSE hist
       IN /\ hist' = moved
          /\ call' = HistoryCall("next",
                                 IF Len(hist.commands) = 0 THEN <<>> ELSE At(moved), 0, FALSE)
    /\ loaded' = NoHistory
    /\ UNCHANGED <<tableVars, nextPid, execVars, listing, restVars, accepted, histFile>>

\* History.Reset, history.go lines 101-103
Reset ==
    /\ hist' = [hist EXCEPT !.currentPos = Len(hist.commands)]
    /\ call' = HistoryCall("reset", <<>>, 0, FALSE)
    /\ loaded' = NoHistory
    /\ UNCHANGED <<tableVars, nextPid, execVars, listing, restVars, accepted, histFile>>

GetAll(h) == h.commands

\* What Save writes: each command and a line feed, lines 152-156.
RECURSIVE SaveBytes(_)
SaveBytes(commands) ==
    IF commands = <<>> THEN <<>>
    ELSE commands[1] \o <<"\n">> \o SaveBytes(Tail(commands))

\* History.Save, history.go lines 142-159; created is whether os.Create
\* succeeded.
Save ==
    /\ \E created \in BOOLEAN :
          /\ histFile' = IF created THEN [exists |-> TRUE, bytes |-> SaveBytes(hist.commands)]
                                    ELSE histFile
          /\ call' = HistoryCall("save", <<>>, 0, ~created)
    /\ loaded' = NoHistory
    /\ UNCHANGED <<tableVars, nextPid, execVars, listing, restVars, hist, accepted>>

\* bufio.Scanner with ScanLines: the text between line feeds, and a last line
\* that does not end in one; cur is the line being read.
RECURSIVE ScanLines(_, _)
ScanLines(bytes, cur) ==
    IF bytes = <<>> THEN (IF cur = <<>> THEN <<>> ELSE <<cur>>)
    ELSE IF bytes[1] = "\n" THEN <<cur>> \o ScanLines(Tail(bytes), <<>>)
    ELSE ScanLines(Tail(bytes), Append(cur, bytes[1]))

\* history.go lines 125-130: the lines that are not blank, trimmed.
RECURSIVE LoadLines(_)
LoadLines(lines) ==
    IF lines = <<>> THEN <<>>
    ELSE (IF TrimSpace(lines[1]) # <<>> THEN <<TrimSpace(lines[1])>> ELSE <<>>)
         \o LoadLines(Tail(lines))

LoadResultKeepingPos(h, f) ==
    IF ~f.exists THEN h
    ELSE [h EXCEPT !.commands = TrimToMax(h.commands \o LoadLines(ScanLines(f.bytes, <<>>)))]

\* History.Load on h, history.go lines 116-139
LoadResult(h, f) ==
    IF ~f.exists THEN h
    ELSE LET kept == TrimToMax(h.commands \o LoadLines(ScanLines(f.bytes, <<>>)))
         IN [commands |-> kept, currentPos |-> Len(kept)]

\* Load called on a fresh History with the same path and maxSize.
Load ==
    /\ LET h == LoadResult(New, histFile)
       IN loaded' = [made |-> TRUE, commands |-> h.commands, currentPos |-> h.currentPos]
    /\ call' = HistoryCall("load", <<>>, 0, FALSE)
    /\ UNCHANGED <<tableVars, nextPid, execVars, listing, restVars, hist, accepted, histFile>>

\* h.Load() called on the shell's History: the file's lines are appended to
\* the commands it holds; with no file to open nothing changes.
HistoryLoad ==
    /\ hist' = LoadResult(hist, histFile)
    /\ call' = HistoryCall("load", <<>>, 0, FALSE)
    /\ loaded' = NoHistory
    /\ UNCHANGED <<tableVars, nextPid, execVars, listing, restVars, accepted, histFile>>

\* ------------------------------------------------- package input: the parser
MaxTokens == 4      \* tokens of a command line

GT == <<">">>
GTGT == <<">", ">">>
LT == <<"<">>
Amp == <<"&">>
Bar == "|"
Caret == <<"^", "[">>       \* an escape sequence as the terminal echoes it
Esc == <<"ESC">>       \* the byte 0x1b

\* The words command lines are made of.
Tokens == { <<"a">>, <<"b">>, <<"$", "a">>, GT, GTGT, LT, Amp, <<Bar>>, Caret }

RECURSIVE Join(_)
Join(ts) ==
    IF ts = <<>> THEN <<>>
    ELSE IF Len(ts) = 1 THEN ts[1] ELSE ts[1] \o <<" ">> \o Join(Tail(ts))

\* The lines handed to the parser: words one space apart, with or without
\* white space around them and a "&" right after the last word.
Lines ==
    { lead \o Join(ts) \o trail :
        ts \in UNION {[1..n -> Tokens] : n \in 0..MaxTokens},
        lead \in {<<>>, <<" ">>},
        trail \in {<<>>, <<" ">>, Amp} }

\* strings.Contains, strings.HasSuffix, strings.TrimSuffix
Contains(s, sub) ==
    \E i \in 1..(Len(s) - Len(sub) + 1) : SubSeq(s, i, i + Len(sub) - 1) = sub
HasSuffix(s, suffix) ==
    Len(s) >= Len(suffix) /\ SubSeq(s, Len(s) - Len(suffix) + 1, Len(s)) = suffix
TrimSuffix(s, suffix) ==
    IF HasSuffix(s, suffix) THEN SubSeq(s, 1, Len(s) - Len(suffix)) ELSE s

\* strings.Split(s, sep) for a one-character sep; cur is the piece being read.
RECURSIVE Split(_, _, _)
Split(s, sep, cur) ==
    IF s = <<>> THEN <<cur>>
    ELSE IF Head(s) = sep THEN <<cur>> \o Split(Tail(s), sep, <<>>)
    ELSE Split(Tail(s), sep, Append(cur, Head(s)))

\* strings.Fields; cur is the field being read.
RECURSIVE FieldsFrom(_, _)
FieldsFrom(s, cur) ==
    IF s = <<>> THEN IF cur = <<>> THEN <<>> ELSE <<cur>>
    ELSE IF Head(s) \in Space
         THEN (IF cur = <<>> THEN <<>> ELSE <<cur>>) \o FieldsFrom(Tail(s), <<>>)
         ELSE FieldsFrom(Tail(s), Append(cur, Head(s)))

Fields(s) == FieldsFrom(s, <<>>)

\* The environment: a is set to "b", nothing else is set.
Getenv(name) == IF name = <<"a">> THEN <<"b">> ELSE <<>>

Letters == {"a", "b"}

\* The length of the variable name s starts with: [A-Za-z_][A-Za-z0-9_]*
RECURSIVE NameLen(_)
NameLen(s) == IF s # <<>> /\ Head(s) \in Letters THEN 1 + NameLen(Tail(s)) ELSE 0

\* ExpandVariables: the $VAR form (no line explored holds the "{" of ${VAR})
RECURSIVE ExpandVariables(_)
ExpandVariables(s) ==
    IF s = <<>> THEN <<>>
    ELSE IF Head(s) = "$" /\ NameLen(Tail(s)) > 0
         THEN LET n == NameLen(Tail(s))
              IN Getenv(SubSeq(s, 2, n + 1)) \o ExpandVariables(SubSeq(s, n + 2, Len(s)))
         ELSE <<Head(s)>> \o ExpandVariables(Tail(s))

expandArgsVariables(args) == [k \in DOMAIN args |-> ExpandVariables(args[k])]

\* &Command{} and &Pipeline{}
Command ==
    [Args |-> <<>>, InputFile |-> <<>>, OutputFile |-> <<>>, AppendOutput |-> FALSE,
     Background |-> FALSE]
Pipeline == [Commands |-> <<>>, Background |-> FALSE]

HasFilenameUnlessOperator(tokens, i) ==
    i + 1 <= Len(tokens) /\ tokens[i + 1] \notin {GT, GTGT, LT}

\* if i+1 < len(tokens), with i counted from 1
HasFilename(tokens, i) == i + 1 <= Len(tokens)

\* The token loop of ParseCommand, from token i on.
RECURSIVE ParseCommandTokens(_, _, _)
ParseCommandTokens(tokens, i, cmd) ==
    IF i > Len(tokens) THEN cmd
    ELSE LET token == tokens[i]
         IN IF token = GT
            THEN IF HasFilename(tokens, i)
                 THEN ParseCommandTokens(tokens, i + 2,
                          [cmd EXCEPT !.OutputFile = tokens[i + 1], !.AppendOutput = FALSE])
                 ELSE ParseCommandTokens(tokens, i + 1, cmd)
            ELSE IF token = GTGT
            THEN IF HasFilename(tokens, i)
                 THEN ParseCommandTokens(tokens, i + 2,
                          [cmd EXCEPT !.OutputFile = tokens[i + 1], !.AppendOutput = TRUE])
                 ELSE ParseCommandTokens(tokens, i + 1, cmd)
            ELSE IF token = LT
            THEN IF HasFilename(tokens, i)
                 THEN ParseCommandTokens(tokens, i + 2,
                          [cmd EXCEPT !.InputFile = tokens[i + 1]])
                 ELSE ParseCommandTokens(tokens, i + 1, cmd)
            ELSE IF token = Amp
            THEN ParseCommandTokens(tokens, i + 1, [cmd EXCEPT !.Background = TRUE])
            ELSE ParseCommandTokens(tokens, i + 1, [cmd EXCEPT !.Args = Append(@, token)])

ParseCommandResult(l) ==
    LET trimmed == TrimSpace(l)
    IN IF trimmed = <<>> THEN Command
       ELSE LET cmd == ParseCommandTokens(Fields(trimmed), 1, Command)
            IN [cmd EXCEPT !.Args = expandArgsVariables(@)]

\* The token loop of ParsePipeline, from token i on: it has no case for "&".
RECURSIVE ParseSegmentTokens(_, _, _)
ParseSegmentTokens(tokens, i, cmd) ==
    IF i > Len(tokens) THEN cmd
    ELSE LET token == tokens[i]
         IN IF token = GT
            THEN IF HasFilename(tokens, i)
                 THEN ParseSegmentTokens(tokens, i + 2,
                          [cmd EXCEPT !.OutputFile = tokens[i + 1], !.AppendOutput = FALSE])
                 ELSE ParseSegmentTokens(tokens, i + 1, cmd)
            ELSE IF token = GTGT
            THEN IF HasFilename(tokens, i)
                 THEN ParseSegmentTokens(tokens, i + 2,
                          [cmd EXCEPT !.OutputFile = tokens[i + 1], !.AppendOutput = TRUE])
                 ELSE ParseSegmentTokens(tokens, i + 1, cmd)
            ELSE IF token = LT
            THEN IF HasFilename(tokens, i)
                 THEN ParseSegmentTokens(tokens, i + 2,
                          [cmd EXCEPT !.InputFile = tokens[i + 1]])
                 ELSE ParseSegmentTokens(tokens, i + 1, cmd)
            ELSE ParseSegmentTokens(tokens, i + 1, [cmd EXCEPT !.Args = Append(@, token)])

\* One pass of ParsePipeline's loop over the trimmed, non-empty segment.
ParseSegment(segment) ==
    LET cmd == ParseSegmentTokens(Fields(segment), 1, Command)
    IN [cmd EXCEPT !.Args = expandArgsVariables(@)]

RECURSIVE SegmentCommands(_)
SegmentCommands(pipeSegments) ==
    IF pipeSegments = <<>> THEN <<>>
    ELSE LET segment == TrimSpace(Head(pipeSegments))
         IN IF segment = <<>> THEN SegmentCommands(Tail(pipeSegments))
            ELSE <<ParseSegment(segment)>> \o SegmentCommands(Tail(pipeSegments))

BackgroundSuffixSpaced(l) == HasSuffix(l, <<" ">> \o Amp)

\* strings.HasSuffix(line, "&")
BackgroundSuffix(l) == HasSuffix(l, Amp)

ParsePipelineResult(l) ==
    LET trimmed == TrimSpace(l)
    IN IF trimmed = <<>> THEN Pipeline
       ELSE IF Contains(trimmed, Esc) \/ Contains(trimmed, Caret) THEN Pipeline
       ELSE LET bg == BackgroundSuffix(trimmed)
                body == IF bg THEN TrimSpace(TrimSuffix(trimmed, Amp)) ELSE trimmed
            IN [Commands |-> SegmentCommands(Split(body, Bar, <<>>)), Background |-> bg]

\* One parser call is looked at: the parser keeps no state between calls.
ParseCommand ==
    /\ parsed.fn = "none"
    /\ \E l \in Lines :
          /\ cmdline' = l
          /\ parsed' = [fn |-> "ParseCommand", cmd |-> ParseCommandResult(l),
                        pipeline |-> Pipeline]
    /\ UNCHANGED notParseVars

ParsePipeline ==
    /\ parsed.fn = "none"
    /\ \E l \in Lines :
          /\ cmdline' = l
          /\ parsed' = [fn |-> "ParsePipeline", cmd |-> Command,
                        pipeline |-> ParsePipelineResult(l)]
    /\ UNCHANGED notParseVars

\* ------------------------------------------------- main: the read-eval loop
MaxKeys == 3        \* keys typed, or words piped, into the shell

Printable == {"l", "s", "e", "x", "i", "t"}
CtrlC == "^C"       \* the byte 0x03
CtrlD == "^D"       \* the byte 0x04

\* What is typed or piped in: two commands, Enter as the terminal sends it in
\* raw mode, a line feed, Ctrl+C and Ctrl+D.
Keys == { <<"l", "s">>, <<"e", "x", "i", "t">>, <<"\r">>, <<"\n">>, <<CtrlC>>, <<CtrlD>> }

RECURSIVE Concat(_)
Concat(ks) == IF ks = <<>> THEN <<>> ELSE Head(ks) \o Concat(Tail(ks))

\* The bytes standard input delivers before it is at end-of-input.
Streams == { Concat(ks) : ks \in UNION {[1..n -> Keys] : n \in 0..MaxKeys} }

\* The words of the lines above as the executor's model names them; no line
\* above holds a redirection, so the file names are always "".
Word(s) ==
    IF s = <<>> THEN ""
    ELSE IF s = <<"l", "s">> THEN "ls"
    ELSE IF s = <<"e", "x", "i", "t">> THEN "exit"
    ELSE "nosuch"

ToPipeline(p) ==
    [Commands |-> [k \in DOMAIN p.Commands |->
                      [Args |-> [j \in DOMAIN p.Commands[k].Args |-> Word(p.Commands[k].Args[j])],
                       InputFile |-> Word(p.Commands[k].InputFile),
                       OutputFile |-> Word(p.Commands[k].OutputFile),
                       AppendOutput |-> p.Commands[k].AppendOutput,
                       Background |-> p.Commands[k].Background]],
     Background |-> p.Background]

\* main.go lines 55-82, up to the loop; the history file does not exist yet.
\* tty is whether standard input is a terminal (enableRawMode succeeds).
main ==
    /\ loop.pc = "start"
    /\ \E tty \in BOOLEAN, bytes \in Streams : stdin' = [tty |-> tty, bytes |-> bytes]
    /\ loop' = [loop EXCEPT !.pc = "read"]
    /\ UNCHANGED <<tableVars, nextPid, execVars, listing, histVars, parseVars, mutex>>

HistoryReset ==
    /\ hist' = [hist EXCEPT !.currentPos = Len(hist.commands)]
    /\ call' = HistoryCall("reset", <<>>, 0, FALSE)
    /\ loaded' = NoHistory

\* ReadLine on a terminal: ReadLineWithArrows in raw mode, one os.Stdin.Read
\* per step (input.go lines 468-610).  At end-of-input Read returns no byte
\* and the loop goes round again.
ReadLineWithArrows ==
    /\ loop.pc \in {"read", "edit"}
    /\ stdin.tty
    /\ LET buf == IF loop.pc = "read" THEN <<>> ELSE loop.buf
       IN IF stdin.bytes = <<>>
          THEN /\ loop' = [loop EXCEPT !.pc = "edit", !.buf = buf]
               /\ UNCHANGED <<stdin, hist, call, loaded>>
          ELSE LET ch == Head(stdin.bytes)
               IN /\ stdin' = [stdin EXCEPT !.bytes = Tail(@)]
                  /\ IF ch \in {"\r", "\n"}
                     THEN /\ loop' = [loop EXCEPT !.pc = "got", !.buf = <<>>,
                                                  !.line = buf, !.err = "nil"]
                          /\ IF buf # <<>> THEN HistoryReset
                             ELSE UNCHANGED <<hist, call, loaded>>
                     ELSE IF ch = CtrlC
                     THEN /\ loop' = [loop EXCEPT !.pc = "got", !.buf = <<>>,
                                                  !.line = <<>>, !.err = "interrupted"]
                          /\ HistoryReset
                     ELSE /\ loop' = [loop EXCEPT !.pc = "edit",
                                         !.buf = IF ch \in Printable THEN Append(buf, ch) ELSE buf]
                          /\ UNCHANGED <<hist, call, loaded>>
    /\ UNCHANGED <<tableVars, nextPid, execVars, listing, accepted, histFile, parseVars, mutex>>

FirstLineFeed(bytes) ==
    CHOOSE i \in DOMAIN bytes : bytes[i] = "\n" /\ \A j \in 1..(i - 1) : bytes[j] # "\n"

\* ReadLine when standard input is not a terminal: enableRawMode fails and
\* readLineSimple reads through a new bufio.Reader, which takes what is there
\* to read, the line and up to k bytes after it, and is then dropped.  With
\* no line feed left ReadString returns io.EOF, and so does the second
\* reader ReadLine falls back to (input.go lines 712-722).
readLineSimple ==
    /\ loop.pc = "read"
    /\ ~stdin.tty
    /\ IF \E i \in DOMAIN stdin.bytes : stdin.bytes[i] = "\n"
       THEN LET n == FirstLineFeed(stdin.bytes)
            IN /\ \E k \in 0..(Len(stdin.bytes) - n) :
                     stdin' = [stdin EXCEPT !.bytes = SubSeq(@, n + k + 1, Len(@))]
               /\ loop' = [loop EXCEPT !.pc = "got", !.line = SubSeq(stdin.bytes, 1, n - 1),
                                       !.err = "nil"]
       ELSE /\ stdin' = [stdin EXCEPT !.bytes = <<>>]
            /\ loop' = [loop EXCEPT !.pc = "got", !.line = <<>>, !.err = "EOF"]
    /\ UNCHANGED <<tableVars, nextPid, execVars, listing, histVars, parseVars, mutex>>

\* The deferred hist.Save() runs when main returns.
Break(why) ==
    /\ loop' = [loop EXCEPT !.pc = "done", !.why = why]
    /\ \E created \in BOOLEAN :
          histFile' = IF created THEN [exists |-> TRUE, bytes |-> SaveBytes(hist'.commands)]
                                 ELSE histFile

\* The body of the loop once ReadLine has returned, main.go lines 85-108.
MainLoop ==
    /\ loop.pc = "got"
    /\ IF loop.err = "EOF"
       THEN /\ UNCHANGED <<hist, accepted, call, loaded, nextPid, execVars, parseVars>>
            /\ Break("EOF")
       ELSE IF loop.err # "nil" \/ loop.line = <<>>
       THEN /\ loop' = [loop EXCEPT !.pc = "read"]
            /\ UNCHANGED <<histVars, nextPid, execVars, parseVars>>
       ELSE /\ hist' = AddResult(hist, loop.line)
            /\ accepted' = IF Appends(hist, loop.line)
                           THEN Append(accepted, TrimSpace(loop.line)) ELSE accepted
            /\ call' = HistoryCall("add", loop.line, 0, FALSE)
            /\ loaded' = NoHistory
            /\ cmdline' = loop.line
            /\ parsed' = [fn |-> "ParsePipeline", cmd |-> Command,
                          pipeline |-> ParsePipelineResult(loop.line)]
            /\ IF parsed'.pipeline.Commands = <<>>
               THEN /\ loop' = [loop EXCEPT !.pc = "read"]
                    /\ UNCHANGED <<nextPid, execVars, histFile>>
               ELSE /\ \E budget \in PipeBudgets :
                          exec' = ExecutePipelineResult(ToPipeline(parsed'.pipeline),
                                                        budget, nextPid)
                    /\ nextPid' = nextPid + Cardinality(Started(exec'))
                    /\ notices' = notices \o NoticeIds(exec'.events)
                    /\ shell' = IF exec'.panic THEN "crashed"
                                ELSE IF exec'.cont THEN "ran" ELSE "exited"
                    /\ IF exec'.panic THEN Break("panic")
                       ELSE IF ~exec'.cont THEN Break("exit")
                       ELSE /\ loop' = [loop EXCEPT !.pc = "read"]
                            /\ UNCHANGED histFile
    /\ UNCHANGED <<tableVars, listing, stdin, mutex>>

\* ------------------------------------------------ package jobs: the table lock
\* The same operations, one step per statement that takes or releases
\* jm.mutex and one per piece of code between two such statements.  The
\* shell is thread 0, the monitor goroutine of job id is thread id.
Shell == 0
NoHolder == -1

\* Jobs added while the lock is followed.
MaxLocked == 1

Holds(t) == mutex.w = t \/ t \in mutex.r

\* sync.RWMutex: Lock needs no holder at all, RLock no writer.
CanLock == mutex.w = NoHolder /\ mutex.r = {}
CanRLock == mutex.w = NoHolder

\* The statements of each operation, in order.
LockedSection == <<"lock", "body", "unlock">>
PrintJobsProgram == <<"rlock", "body", "runlock", "print">>
FgProgramWaitLocked ==
    <<"rlock", "get", "runlock", "test", "cont", "lock1", "setrun", "wait", "unlock1",
      "lock2", "setdone", "unlock2">>
FgProgram ==
    <<"rlock", "get", "runlock", "test", "cont", "lock1", "setrun", "unlock1", "wait",
      "lock2", "setdone", "unlock2">>
BgProgram == <<"rlock", "get", "runlock", "test", "cont", "lock1", "setrun", "unlock1">>
SignalProgram == <<"rlock", "get", "runlock", "test", "signal", "lock1", "set", "unlock1">>

Program(op) ==
    CASE op \in {"add", "remove", "cleanup"} -> LockedSection
      [] op = "jobs" -> PrintJobsProgram
      [] op = "fg" -> FgProgram
      [] op = "bg" -> BgProgram
      [] op \in {"stop", "kill"} -> SignalProgram

\* The statement after pc in the operation, "returned" after the last.
After(op, pc) ==
    LET prog == Program(op)
        k == CHOOSE i \in DOMAIN prog : prog[i] = pc
    IN IF k = Len(prog) THEN "returned" ELSE prog[k + 1]

Advance == caller' = [caller EXCEPT !.pc = After(caller.op, caller.pc)]

lockRest == <<shell, exec, notices, histVars, parseVars, loopVars>>

\* The shell thread calls an operation of the job manager.
Call ==
    /\ caller.pc = "idle"
    /\ \E op \in {"add", "remove", "cleanup", "jobs", "fg", "bg", "stop", "kill"},
          id \in CallIds :
          /\ op = "add" =>
                nextID <= MaxLocked
          /\ caller' = [Enter(op, id) EXCEPT !.pc = Program(op)[1]]
    /\ UNCHANGED <<jobs, job, nextID, proc, nextPid, mon, issued, listing, mutex, lockRest>>

MutexLock ==
    /\ caller.pc \in {"lock", "lock1", "lock2"}
    /\ CanLock
    /\ mutex' = [mutex EXCEPT !.w = Shell]
    /\ Advance
    /\ UNCHANGED <<jobs, job, nextID, proc, nextPid, mon, issued, listing, lockRest>>

MutexUnlock ==
    /\ caller.pc \in {"unlock", "unlock1", "unlock2"}
    /\ mutex.w = Shell
    /\ mutex' = [mutex EXCEPT !.w = NoHolder]
    /\ IF After(caller.op, caller.pc) = "returned" THEN Return("nil") ELSE Advance
    /\ UNCHANGED <<jobs, job, nextID, proc, nextPid, mon, issued, listing, lockRest>>

MutexRLock ==
    /\ caller.pc = "rlock"
    /\ CanRLock
    /\ mutex' = [mutex EXCEPT !.r = @ \cup {Shell}]
    /\ Advance
    /\ UNCHANGED <<jobs, job, nextID, proc, nextPid, mon, issued, listing, lockRest>>

MutexRUnlock ==
    /\ caller.pc = "runlock"
    /\ Shell \in mutex.r
    /\ mutex' = [mutex EXCEPT !.r = @ \ {Shell}]
    /\ Advance
    /\ UNCHANGED <<jobs, job, nextID, proc, nextPid, mon, issued, listing, lockRest>>

\* AddJob between Lock and the deferred Unlock, part_005 lines 66-82
AddJobLocked ==
    /\ caller.op = "add" /\ caller.pc = "body"
    /\ LET new == [ID |-> nextID, PID |-> nextPid, PGID |-> nextPid,
                   State |-> JobRunning, ExitCode |-> 0]
       IN /\ job' = [i \in DOMAIN job \cup {nextID} |->
                        IF i = nextID THEN new ELSE job[i]]
          /\ jobs' = jobs \cup {nextID}
          /\ issued' = Append(issued, new.ID)
    /\ nextID' = AddJobNextID(nextID)
    /\ proc' = [p \in DOMAIN proc \cup {nextPid} |->
                   IF p = nextPid THEN [status |-> "running", code |-> 0] ELSE proc[p]]
    /\ nextPid' = nextPid + 1
    /\ mon' = [i \in DOMAIN mon \cup {nextID} |->
                   IF i = nextID THEN [pc |-> "wait", code |-> 0] ELSE mon[i]]
    /\ Advance
    /\ UNCHANGED <<listing, mutex, lockRest>>

\* RemoveJob line 122, CleanupDoneJobs lines 258-262
DeleteLocked ==
    /\ caller.op \in {"remove", "cleanup"} /\ caller.pc = "body"
    /\ jobs' = IF caller.op = "remove" THEN jobs \ {caller.id}
               ELSE {id \in jobs : job[id].State # JobDone}
    /\ Advance
    /\ UNCHANGED <<job, nextID, proc, nextPid, mon, issued, listing, mutex, lockRest>>

\* GetActiveJobs between RLock and RUnlock, lines 109-115
GetActiveJobsLocked ==
    /\ caller.op = "jobs" /\ caller.pc = "body"
    /\ listing' = [snap |-> GetActiveJobs, lines |-> {}]
    /\ Advance
    /\ UNCHANGED <<jobs, job, nextID, proc, nextPid, mon, issued, mutex, lockRest>>

\* PrintJobs lines 268-280, after GetActiveJobs has returned
PrintLines ==
    /\ caller.op = "jobs" /\ caller.pc = "print"
    /\ listing' = [snap |-> {},
                   lines |-> {[id |-> id, status |-> job[id].State] : id \in listing.snap}]
    /\ Return("nil")
    /\ UNCHANGED <<jobs, job, nextID, proc, nextPid, mon, issued, mutex, lockRest>>

\* GetJob between RLock and RUnlock, line 89
GetJobLocked ==
    /\ caller.pc = "get"
    /\ caller' = [caller EXCEPT !.pc = After(caller.op, "get"),
                                !.seen = IF GetJob(caller.id) = Nil THEN "nil" ELSE "found"]
    /\ UNCHANGED <<jobs, job, nextID, proc, nextPid, mon, issued, listing, mutex, lockRest>>

\* The nil test and the test of job.State: lines 128-134, 167-173, 193-199,
\* 217-223
TestState ==
    /\ caller.pc = "test"
    /\ LET state == job[caller.id].State
           refused == CASE caller.op \in {"fg", "bg"} -> JobAlreadyDone(state)
                        [] caller.op = "stop" -> ~StopJobAllowed(state)
                        [] caller.op = "kill" -> KillJobRefused(state)
       IN IF caller.seen = "nil" THEN Return("notfound")
          ELSE IF refused THEN Return("refused")
          ELSE caller' = [caller EXCEPT !.pc = After(caller.op, "test"), !.seen = state]
    /\ UNCHANGED <<jobs, job, nextID, proc, nextPid, mon, issued, listing, mutex, lockRest>>

\* lines 137-142 and 176-181: SIGCONT to a Stopped job
ContinueJob ==
    /\ caller.pc = "cont"
    /\ IF job[caller.id].State = JobStopped
       THEN \E ok \in BOOLEAN :
                /\ Kill(job[caller.id].PGID, "SIGCONT", ok, FALSE)
                /\ IF ok THEN Advance ELSE Return("signal")
       ELSE /\ IF caller.op = "fg" THEN Advance ELSE Return("nil")
            /\ UNCHANGED proc
    /\ UNCHANGED <<jobs, job, nextID, nextPid, mon, issued, listing, mutex, lockRest>>

\* lines 201-205 and 225-229: SIGSTOP, SIGTERM
SignalJob ==
    /\ caller.pc = "signal"
    /\ \E ok \in BOOLEAN, dies \in BOOLEAN :
          /\ Kill(job[caller.id].PGID, IF caller.op = "stop" THEN "SIGSTOP" ELSE "SIGTERM",
                  ok, dies)
          /\ IF ok THEN Advance ELSE Return("signal")
    /\ UNCHANGED <<jobs, job, nextID, nextPid, mon, issued, listing, mutex, lockRest>>

\* The writes between Lock and Unlock: lines 146, 157-158, 184, 208, 232-233
SetState ==
    /\ caller.pc \in {"setrun", "set", "setdone"}
    /\ job' = [job EXCEPT ![caller.id] =
                  CASE caller.pc = "setrun" -> [@ EXCEPT !.State = JobRunning]
                    [] caller.pc = "setdone" ->
                          [@ EXCEPT !.State = JobDone, !.ExitCode = caller.code]
                    [] caller.op = "stop" -> [@ EXCEPT !.State = JobStopped]
                    [] OTHER -> [@ EXCEPT !.State = JobDone, !.ExitCode = -1]]
    /\ Advance
    /\ UNCHANGED <<jobs, nextID, proc, nextPid, mon, issued, listing, mutex, lockRest>>

\* BringToForeground lines 150-153: job.Process.Wait()
WaitForeground ==
    /\ caller.pc = "wait"
    /\ WaitReturns(job[caller.id].PID)
    /\ IF WaitOk(job[caller.id].PID)
       THEN /\ caller' = [caller EXCEPT !.pc = After(caller.op, "wait"),
                                        !.code = proc[job[caller.id].PID].code]
            /\ proc' = Reaped(job[caller.id].PID)
       ELSE /\ Return("wait")
            /\ UNCHANGED proc
    /\ UNCHANGED <<jobs, job, nextID, nextPid, mon, issued, listing, mutex, lockRest>>

\* monitorJob lines 241-244: job.Process.Wait()
MonitorReturns(id) ==
    /\ id \in DOMAIN mon
    /\ mon[id].pc = "wait"
    /\ WaitReturns(job[id].PID)
    /\ IF WaitOk(job[id].PID)
       THEN /\ mon' = [mon EXCEPT ![id] = [pc |-> "lock", code |-> proc[job[id].PID].code]]
            /\ proc' = Reaped(job[id].PID)
       ELSE /\ mon' = [mon EXCEPT ![id].pc = "done"]
            /\ UNCHANGED proc
    /\ UNCHANGED <<jobs, job, nextID, nextPid, caller, issued, listing, mutex, lockRest>>

\* monitorJob line 246
MonitorLock(id) ==
    /\ id \in DOMAIN mon
    /\ mon[id].pc = "lock"
    /\ CanLock
    /\ mutex' = [mutex EXCEPT !.w = id]
    /\ mon' = [mon EXCEPT ![id].pc = "update"]
    /\ UNCHANGED <<jobs, job, nextID, proc, nextPid, caller, issued, listing, lockRest>>

\* monitorJob lines 249-250
MonitorSet(id) ==
    /\ id \in DOMAIN mon
    /\ mon[id].pc = "update"
    /\ job' = [job EXCEPT ![id].State = JobDone, ![id].ExitCode = mon[id].code]
    /\ mon' = [mon EXCEPT ![id].pc = "unlock"]
    /\ UNCHANGED <<jobs, nextID, proc, nextPid, caller, issued, listing, mutex, lockRest>>

\* monitorJob line 247: the deferred Unlock
MonitorUnlock(id) ==
    /\ id \in DOMAIN mon
    /\ mon[id].pc = "unlock"
    /\ mutex.w = id
    /\ mutex' = [mutex EXCEPT !.w = NoHolder]
    /\ mon' = [mon EXCEPT ![id] = [pc |-> "done", code |-> 0]]
    /\ UNCHANGED <<jobs, job, nextID, proc, nextPid, caller, issued, listing, lockRest>>

ShellStep ==
    \/ Call
    \/ MutexLock
    \/ MutexUnlock
    \/ MutexRLock
    \/ MutexRUnlock
    \/ AddJobLocked
    \/ DeleteLocked
    \/ GetActiveJobsLocked
    \/ PrintLines
    \/ GetJobLocked
    \/ TestState
    \/ ContinueJob
    \/ SignalJob
    \/ SetState
    \/ WaitForeground
    \/ Returned

MonitorStepLocked(id) ==
    \/ MonitorReturns(id)
    \/ MonitorLock(id)
    \/ MonitorSet(id)
    \/ MonitorUnlock(id)

Next ==
    \/ AddJob
    \/ \E id \in 1..MaxJobs : RemoveJob(id)
    \/ CleanupDoneJobs
    \/ \E pid \in DOMAIN proc, c \in ExitCodes : ProcExit(pid, c)
    \/ \E id \in DOMAIN mon : MonitorWait(id)
    \/ \E id \in DOMAIN mon : MonitorUpdate(id)
    \/ BringToForeground
    \/ SendToBackground
    \/ StopJob
    \/ KillJob
    \/ Returned

Spec == Init /\ [][Next]_vars

ExecNext ==
    \/ ExecutePipeline
    \/ ReadLine

ExecSpec == Init /\ [][ExecNext]_vars

\* The Go scheduler runs every goroutine that can run: a monitor whose Wait
\* can return, or which is about to take the lock, does so.
MonitorFairness ==
    \A id \in 1..MaxJobs : WF_vars(MonitorWait(id)) /\ WF_vars(MonitorUpdate(id))

LiveSpec == Init /\ [][Next]_vars /\ MonitorFairness

\* The jobs builtin beside the monitors.
ListNext ==
    \/ AddJob
    \/ \E pid \in DOMAIN proc, c \in ExitCodes : ProcExit(pid, c)
    \/ \E id \in DOMAIN mon : MonitorWait(id)
    \/ \E id \in DOMAIN mon : MonitorUpdate(id)
    \/ StopJob
    \/ CleanupDoneJobs
    \/ PrintJobs
    \/ Returned

ListSpec == Init /\ [][ListNext]_vars

HistNext ==
    \/ HistoryAdd
    \/ HistoryPrevious
    \/ HistoryNext
    \/ Reset
    \/ Save
    \/ Load

HistSpec == Init /\ [][HistNext]_vars

ParseNext ==
    \/ ParseCommand
    \/ ParsePipeline

ParseSpec == Init /\ [][ParseNext]_vars

LoopNext ==
    \/ main
    \/ ReadLineWithArrows
    \/ readLineSimple
    \/ MainLoop

LoopSpec == Init /\ [][LoopNext]_vars

\* The shell's one thread runs whenever it can take a step.
LoopLiveSpec == LoopSpec /\ WF_vars(LoopNext)

\* The History with Load called on it again.
CursorNext ==
    \/ HistNext
    \/ HistoryLoad

CursorSpec == Init /\ [][CursorNext]_vars

LockNext ==
    \/ ShellStep
    \/ \E id \in 1..MaxLocked : MonitorStepLocked(id)
    \/ \E pid \in DOMAIN proc, c \in ExitCodes : ProcExit(pid, c)

LockSpec == Init /\ [][LockNext]_vars

\* Every thread that can run does; sync.RWMutex hands the lock to a waiter
\* that has waited long enough (starvation mode), so a thread that can take
\* the lock again and again does take it.
LockFairness ==
    /\ WF_vars(ShellStep)
    /\ SF_vars(MutexLock \/ MutexRLock)
    /\ \A id \in 1..MaxLocked : WF_vars(MonitorStepLocked(id)) /\ SF_vars(MonitorLock(id))

LockLiveSpec == LockSpec /\ LockFairness

\* ================================================================ properties

\* C1: Done is terminal: no step takes a job that is Done to another state.
DoneIsTerminal ==
    [][\A id \in DOMAIN job :
          (job[id].State = JobDone /\ id \in DOMAIN job') => job'[id].State = JobDone]_vars

\* C2: AddJob returns strictly increasing ids, each below the counter (so the
\* next one is greater still), and no id is handed out twice, whatever has
\* been removed in between.
IdsStrictlyIncreasing ==
    /\ \A i, j \in DOMAIN issued : i < j => issued[i] < issued[j]
    /\ \A i \in DOMAIN issued : issued[i] < nextID
    /\ \A id \in jobs : \E i \in DOMAIN issued : issued[i] = id

\* A second id has been issued and the first job is gone from the table.
IdIssuedAfterRemoval == Len(issued) = 2 /\ 1 \notin jobs /\ 2 \in jobs

\* C3: after a successful background start (the job-start notice is printed)
\* the table holds a Running job for the pid of the tail process.
Noticed(r) == \E k \in DOMAIN r.events : r.events[k].e = "notice"

BackgroundJobRegistered ==
    (shell = "ran" /\ exec.p.Background /\ Noticed(exec)) =>
        \E id \in jobs : /\ job[id].PID = exec.cmds[Len(exec.cmds)].pid
                         /\ job[id].State = JobRunning

\* C4: a job no job-control call is ever made on, whose process exits by
\* itself with code c, is eventually Done with exit code c (or has been
\* removed from the table and forgotten).
ExitRecorded ==
    \A id \in 1..MaxJobs : \A c \in ExitCodes :
        ([](caller.id # id)) =>
            ((id \in DOMAIN job /\ proc[job[id].PID].status = "exited"
                                /\ proc[job[id].PID].code = c)
             ~> (id \notin DOMAIN job
                 \/ (job[id].State = JobDone /\ job[id].ExitCode = c)))

\* The monitor has recorded a non-zero exit code of a job still in the table.
ExitRecordedByMonitor ==
    \E id \in jobs : /\ job[id].State = JobDone
                     /\ job[id].ExitCode = MaxExit
                     /\ mon[id].pc = "done"
                     /\ caller = Idle

\* C5: ExecutePipeline never takes the shell down.
ShellNeverCrashes == shell # "crashed"

\* C6: the pipes and the stream bindings of a pipeline that got as far as
\* starting its stages.
NonEmpty(p) == {i \in DOMAIN p.Commands : p.Commands[i].Args # <<>>}
Pipes(r) == Cardinality({k \in DOMAIN r.events : r.events[k].e = "pipe"})
InputBound(r) == {k \in DOMAIN r.cmds : r.cmds[k].stdin \in {"file", "inherit"}}
OutputBound(r) == {k \in DOMAIN r.cmds : r.cmds[k].stdout \in {"file", "inherit"}}

\* C6 as stated: n stages give n-1 pipes, one input and one output binding.
PipelineWiringAsStated ==
    exec.wired =>
        /\ Pipes(exec) = Len(exec.p.Commands) - 1
        /\ Cardinality(InputBound(exec)) = 1
        /\ Cardinality(OutputBound(exec)) = 1

\* C6 amended: the m stages with arguments are joined by m-1 pipes, each from
\* one such stage to the next; the input binding is stage 1's and the output
\* binding stage n's, and they exist when that stage has arguments; no file of
\* another stage is opened.
PipelineWiring ==
    exec.wired =>
        LET n == Len(exec.p.Commands)
            m == Cardinality(NonEmpty(exec.p))
        IN /\ Len(exec.cmds) = m
           /\ Pipes(exec) = IF m = 0 THEN 0 ELSE m - 1
           /\ \A k \in 1..(m - 1) : /\ exec.cmds[k].stdout = "pipe"
                                    /\ exec.cmds[k + 1].stdin = "pipe"
                                    /\ exec.cmds[k].stage < exec.cmds[k + 1].stage
           /\ InputBound(exec) = {k \in DOMAIN exec.cmds : exec.cmds[k].stage = 1}
           /\ OutputBound(exec) = {k \in DOMAIN exec.cmds : exec.cmds[k].stage = n}
           /\ \A k \in DOMAIN exec.events :
                 exec.events[k].e = "open" => exec.events[k].stage \in {1, n}

\* Three stages with arguments, the middle one carrying a redirection.
InteriorRedirectionWired ==
    /\ exec.wired
    /\ Len(exec.p.Commands) = 3
    /\ NonEmpty(exec.p) = {1, 2, 3}
    /\ exec.p.Commands[2].OutputFile # ""
    /\ Pipes(exec) = 2

\* A step in which a job-control call returns.
Returns(op) == caller'.op = op /\ caller'.pc = "returned" /\ caller.pc # "returned"

\* C7: StopJob called on a Stopped or Done job returns the not-running error;
\* when it succeeds the state its check read was Running and the state it
\* leaves is Stopped.
StopJobContract ==
    [][/\ (/\ caller.pc = "idle" /\ caller'.op = "stop" /\ caller'.id \in jobs
           /\ job[caller'.id].State \in {JobStopped, JobDone})
          => (caller'.pc = "returned" /\ caller'.err = "notrunning")
       /\ (Returns("stop") /\ caller'.err = "nil")
          => (/\ caller.pc = "set"
              /\ caller.seen = JobRunning
              /\ job'[caller'.id].State = JobStopped)]_vars

StopJobSucceeded ==
    /\ caller.op = "stop" /\ caller.pc = "returned" /\ caller.err = "nil"
    /\ job[caller.id].State = JobStopped

\* C8 as stated: KillJob on a job of the table fails only when it is Done.
KillJobFailsOnlyWhenDone ==
    [][(Returns("kill") /\ caller'.err # "nil" /\ caller'.id \in jobs)
          => (caller.pc = "idle" /\ job[caller'.id].State = JobDone)]_vars

\* C8 amended: on a job of the table KillJob returns the already-done error
\* exactly when the state is Done; from Running and Stopped it goes on to send
\* the terminate signal, fails only if the signal cannot be delivered, and
\* otherwise succeeds and leaves the job Done with exit code -1.
KillJobContract ==
    [][/\ (caller.pc = "idle" /\ caller'.op = "kill" /\ caller'.id \in jobs)
          => IF job[caller'.id].State = JobDone
             THEN caller'.pc = "returned" /\ caller'.err = "done"
             ELSE caller'.pc = "signal" /\ caller'.seen \in {JobRunning, JobStopped}
       /\ (caller.op = "kill" /\ caller.pc = "signal" /\ caller' # caller)
          => \/ caller'.pc = "set"
             \/ caller'.pc = "returned" /\ caller'.err = "signal" /\ UNCHANGED job
       /\ (caller.op = "kill" /\ caller.pc = "set" /\ caller' # caller)
          => /\ caller'.pc = "returned" /\ caller'.err = "nil"
             /\ job'[caller.id].State = JobDone
             /\ job'[caller.id].ExitCode = -1
       /\ (Returns("kill") /\ caller'.err = "nil") => caller.pc = "set"]_vars

\* KillJob has succeeded on a job whose process is still stopped.
KillJobSucceededOnStopped ==
    /\ caller.op = "kill" /\ caller.pc = "returned" /\ caller.err = "nil"
    /\ job[caller.id].State = JobDone /\ job[caller.id].ExitCode = -1
    /\ proc[job[caller.id].PID].status = "stopped"

\* C9: BringToForeground and SendToBackground return the not-found error for
\* an id that is not in the table and the already-done error for a Done job.
ForegroundBackgroundErrors ==
    [][(caller.pc = "idle" /\ caller'.op \in {"fg", "bg"})
          => /\ caller'.id \notin jobs
                => (caller'.pc = "returned" /\ caller'.err = "notfound")
             /\ (caller'.id \in jobs /\ job[caller'.id].State = JobDone)
                => (caller'.pc = "returned" /\ caller'.err = "done")]_vars

ForegroundRefusedDone ==
    /\ caller.op = "fg" /\ caller.pc = "returned" /\ caller.err = "done"
    /\ caller.id \in jobs /\ job[caller.id].State = JobDone

\* C10: a call that returns not-found, already-done or not-running has changed
\* neither the map, nor the counter, nor any job.
FailedCallMutatesNothing ==
    [][(/\ caller'.pc = "returned" /\ caller.pc # "returned"
        /\ caller'.err \in {"notfound", "done", "notrunning"})
          => UNCHANGED <<jobs, job, nextID>>]_vars

StopRefused ==
    /\ caller.op = "stop" /\ caller.pc = "returned" /\ caller.err = "notrunning"
    /\ job[caller.id].State = JobStopped

\* C11: a call that returns the signal-delivery error comes from the step that
\* sends the signal (SIGCONT in BringToForeground and SendToBackground, SIGSTOP
\* in StopJob, SIGTERM in KillJob); that step writes no job, map or counter,
\* and neither did the entry of the call before it.
SignalFailureChangesNothing ==
    [][/\ (Returns(caller'.op) /\ caller'.err = "signal")
          => /\ caller.pc = IF caller.op \in {"fg", "bg"} THEN "cont" ELSE "signal"
             /\ caller'.op \in {"fg", "bg", "stop", "kill"}
             /\ job'[caller.id] = job[caller.id]
             /\ UNCHANGED <<jobs, job, nextID, proc>>
       /\ (caller.pc = "idle" /\ caller'.pc \in {"cont", "signal"})
          => UNCHANGED <<jobs, job, nextID>>]_vars

\* KillJob has failed to signal a Stopped job, which is Stopped still.
SignalUndelivered ==
    /\ caller.op = "kill" /\ caller.pc = "returned" /\ caller.err = "signal"
    /\ job[caller.id].State = JobStopped /\ job[caller.id].ExitCode = 0

\* C12: a BringToForeground call that has returned the wait error does not
\* leave as Running a job whose process the monitor has reaped and whose
\* monitor has finished.
ForegroundFailureLeavesNoStaleRunning ==
    (/\ caller.op = "fg" /\ caller.pc = "returned" /\ caller.err \in {"wait", "signal"}
     /\ mon[caller.id].pc = "done"
     /\ proc[job[caller.id].PID].status = "reaped")
        => job[caller.id].State # JobRunning

\* C13: no monitor update of a job's state falls between the state check and
\* the state update of an operation on that job.
CheckAndUpdateAtomic ==
    [][\A id \in DOMAIN mon :
          (mon[id].pc = "update" /\ id \in DOMAIN mon' /\ mon'[id].pc = "done")
             => ~(caller.id = id /\ caller.pc \in {"cont", "setrun", "signal", "set"})]_vars

\* C14: the job numbers of successive job-start notices are strictly
\* increasing.
NoticeIdsIncrease ==
    \A i, j \in DOMAIN notices : i < j => notices[i] < notices[j]

\* The events of one kind, as positions in the order they happened.
EventsOf(r, kinds) == {k \in DOMAIN r.events : r.events[k].e \in kinds}
MultiStage(r) == Len(r.p.Commands) >= 2

\* C15: a pipeline of two or more stages one of which names a builtin starts
\* no process, runs no builtin, reports an error and returns continue = true.
BuiltinStage(p) ==
    {i \in DOMAIN p.Commands :
        p.Commands[i].Args # <<>> /\ p.Commands[i].Args[1] \in builtinCommands}

BuiltinAbortsPipeline ==
    (shell # "prompt" /\ MultiStage(exec) /\ BuiltinStage(exec.p) # {}) =>
        /\ EventsOf(exec, {"start", "builtin", "wait", "notice"}) = {}
        /\ Started(exec) = {}
        /\ exec.cont /\ ~exec.panic /\ shell = "ran"
        /\ EventsOf(exec, {"error"}) # {}

\* The builtin exit is the last of three stages, after two programs.
BuiltinLastStageAborted ==
    /\ shell = "ran" /\ Len(exec.p.Commands) = 3
    /\ BuiltinStage(exec.p) = {3} /\ exec.p.Commands[3].Args[1] = "exit"
    /\ exec.p.Commands[1].Args = <<"ls">> /\ exec.p.Commands[2].Args = <<"ls">>
    /\ Started(exec) = {}

\* C16: in a pipeline of two or more stages every file opening and every pipe
\* connection comes before the first start.
WiringPrecedesStart ==
    MultiStage(exec) =>
        \A w \in EventsOf(exec, {"open", "pipe"}), t \in EventsOf(exec, {"start"}) : w < t

\* Two pipes, two files and three starts in one call.
WiredThenStarted ==
    /\ MultiStage(exec)
    /\ Cardinality(EventsOf(exec, {"pipe"})) = 2
    /\ Cardinality(EventsOf(exec, {"open"})) = 2
    /\ Cardinality(EventsOf(exec, {"start"})) = 3

\* C17: a foreground pipeline of two or more stages whose exec.Cmd values all
\* started has one wait per stage, in stage order, every stage waited for,
\* and an error reported for each stage that exits non-zero.
AllStarted(r) == r.cmds # <<>> /\ Started(r) = DOMAIN r.cmds

EveryStageWaited ==
    (shell # "prompt" /\ MultiStage(exec) /\ ~exec.p.Background /\ AllStarted(exec)) =>
        /\ \A i \in DOMAIN exec.cmds : exec.cmds[i].waited
        /\ Cardinality(EventsOf(exec, {"wait"})) = Len(exec.cmds)
        /\ \A a, b \in EventsOf(exec, {"wait"}) :
               a < b => exec.events[a].stage < exec.events[b].stage
        /\ \A i \in DOMAIN exec.cmds :
               ExitStatus(exec.cmds[i].name) # 0 =>
                  \E k \in EventsOf(exec, {"error"}) :
                     exec.events[k].stage = exec.cmds[i].stage
        /\ \A s \in EventsOf(exec, {"start"}), w \in EventsOf(exec, {"wait"}) : s < w
        /\ exec.cont

\* The first of three stages exits non-zero and the third is waited for.
WaitedPastFailure ==
    /\ MultiStage(exec) /\ Len(exec.cmds) = 3
    /\ exec.cmds[1].name = "false"
    /\ exec.cmds[3].waited

\* C18: when the opening of a redirection file fails, no process is started
\* and ExecutePipeline returns continue = true.
RedirectionFiles(p) ==
    {p.Commands[i].InputFile : i \in DOMAIN p.Commands}
        \cup {p.Commands[i].OutputFile : i \in DOMAIN p.Commands}

OpenFailed(r) ==
    \E k \in EventsOf(r, {"error"}) :
        r.events[k].file \in RedirectionFiles(r.p) \ {""}

OpenFailureStartsNothing ==
    (shell # "prompt" /\ OpenFailed(exec)) =>
        /\ Started(exec) = {}
        /\ EventsOf(exec, {"start", "wait", "notice"}) = {}
        /\ exec.cont /\ shell = "ran"

\* The output file of the last of three stages cannot be created.
LastStageOutputFailed ==
    /\ Len(exec.p.Commands) = 3 /\ Len(exec.cmds) = 2
    /\ OpenFailed(exec)
    /\ exec.p.Commands[3].OutputFile = "/ro/out.txt"

\* C19: after ExecutePipeline the Commands are what the parser produced.
CommandsUntouched == shell # "prompt" => exec.commands = exec.p.Commands

\* C20: ExecutePipeline returns continue = false exactly for a single command
\* whose program name is exit; every other call that returns, returns true.
SingleExit(p) ==
    /\ Len(p.Commands) = 1
    /\ p.Commands[1].Args # <<>>
    /\ p.Commands[1].Args[1] = "exit"

OnlyExitStops ==
    (shell \in {"ran", "exited"}) =>
        /\ exec.cont = ~SingleExit(exec.p)
        /\ (shell = "exited") = SingleExit(exec.p)

\* exit in the background still ends the loop; exit as a pipeline stage does not.
ExitStopped == shell = "exited" /\ exec.p.Background

\* C21: a single command whose program name is a builtin runs the builtin in
\* the shell: no process is started, no notice printed and no job added,
\* whatever the background flag.
SingleBuiltin(p) ==
    /\ Len(p.Commands) = 1
    /\ p.Commands[1].Args # <<>>
    /\ p.Commands[1].Args[1] \in builtinCommands

BuiltinNeverSpawns ==
    (shell # "prompt" /\ SingleBuiltin(exec.p)) =>
        /\ exec.cmds = <<>>
        /\ EventsOf(exec, {"start", "wait", "notice", "open"}) = {}
        /\ Cardinality(EventsOf(exec, {"builtin"})) = 1
        /\ Started(exec) = {}
        /\ jobs = {} /\ nextID = 1

\* cd with a trailing & has run.
BackgroundBuiltinRan ==
    /\ shell = "ran" /\ SingleBuiltin(exec.p) /\ exec.p.Background
    /\ exec.p.Commands[1].Args[1] = "cd"
    /\ EventsOf(exec, {"builtin"}) # {}

\* C22: StopJob then BringToForeground.  A successful StopJob leaves the job
\* Stopped; BringToForeground on a job it finds Stopped sends the continue
\* signal, which sets the process going, and then sets the state Running;
\* when it returns successfully it has waited for the process and leaves the
\* job Done with the exit code its Wait returned.
StopThenForeground ==
    [][/\ (Returns("stop") /\ caller'.err = "nil")
          => job'[caller.id].State = JobStopped
       /\ (/\ caller.op = "fg" /\ caller.pc = "cont" /\ caller'.pc = "setrun"
           /\ job[caller.id].State = JobStopped
           /\ proc[job[caller.id].PID].status = "stopped")
          => proc'[job[caller.id].PID].status = "running"
       /\ (caller.op = "fg" /\ caller.pc = "setrun" /\ caller' # caller)
          => (caller'.pc = "wait" /\ job'[caller.id].State = JobRunning)
       /\ (Returns("fg") /\ caller'.err = "nil")
          => /\ caller.pc = "setdone"
             /\ job'[caller.id].State = JobDone
             /\ job'[caller.id].ExitCode = caller.code
             /\ proc[job[caller.id].PID].status = "reaped"]_vars

\* A foreground call that found the job Stopped has waited for its process
\* and is about to record Done.
StoppedJobForegrounded ==
    /\ caller.op = "fg" /\ caller.pc = "setdone" /\ caller.seen = JobStopped
    /\ job[caller.id].State = JobRunning

\* C23: SendToBackground never waits: each of its steps can be taken at once.
\* On a job it finds Stopped it sends the continue signal and sets the state
\* Running; on a job that is not Stopped it returns success and changes
\* neither the table nor the process.
BackgroundNeverBlocks ==
    /\ []((caller.op = "bg" /\ caller.pc \in {"cont", "setrun"})
             => ENABLED (BgContinue \/ BgSetRunning))
    /\ [][/\ (/\ caller.op = "bg" /\ caller.pc = "cont" /\ caller' # caller
              /\ job[caller.id].State # JobStopped)
             => /\ caller'.pc = "returned" /\ caller'.err = "nil"
                /\ UNCHANGED <<jobs, job, nextID, proc>>
          /\ (/\ caller.op = "bg" /\ caller.pc = "cont" /\ caller'.pc = "setrun")
             => /\ job[caller.id].State = JobStopped
                /\ proc'[job[caller.id].PID].status # "stopped"
          /\ (caller.op = "bg" /\ caller.pc = "setrun" /\ caller' # caller)
             => /\ caller'.pc = "returned" /\ caller'.err = "nil"
                /\ job'[caller.id].State = JobRunning]_vars

\* SendToBackground has returned success and the process is still running.
BackgroundedWhileRunning ==
    /\ caller.op = "bg" /\ caller.pc = "returned" /\ caller.err = "nil"
    /\ job[caller.id].State = JobRunning
    /\ proc[job[caller.id].PID].status = "running"
    /\ mon[caller.id].pc = "wait"

\* C25: a step of a monitor or of a job-control call deletes no entry;
\* CleanupDoneJobs deletes exactly the entries that are Done and leaves the
\* other entries, their jobs and the counter as they are.
MonitorStep ==
    \E id \in DOMAIN mon :
        mon[id].pc # "done" /\ (id \notin DOMAIN mon' \/ mon'[id] # mon[id])

RemovalOnlyByCleanup ==
    [][/\ (MonitorStep \/ caller' # caller) => jobs' = jobs
       /\ CleanupDoneJobs
          => /\ jobs' = {id \in jobs : job[id].State # JobDone}
             /\ \A id \in jobs' : job'[id] = job[id]
             /\ nextID' = nextID]_vars

\* A Done job is still in the table beside a job added after it finished.
DoneJobKept ==
    /\ jobs = {1, 2}
    /\ job[1].State = JobDone /\ mon[1].pc = "done"
    /\ job[2].State \in {JobRunning, JobStopped}

\* C24: no line PrintJobs prints shows a job as Done.
ListingShowsNoDoneJob ==
    \A line \in listing.lines : line.status \in {JobRunning, JobStopped}

\* C26: every redirection file the call opened it has closed by its return:
\* each open event has a close event for the same file of the same stage
\* after it, and none is closed twice.
OpenedFilesClosed ==
    shell # "prompt" =>
        /\ \A o \in EventsOf(exec, {"open"}) :
              \E c \in EventsOf(exec, {"close"}) :
                 /\ o < c
                 /\ exec.events[c].stage = exec.events[o].stage
                 /\ exec.events[c].file = exec.events[o].file
        /\ Cardinality(EventsOf(exec, {"close"})) = Cardinality(EventsOf(exec, {"open"}))
        /\ \A c \in EventsOf(exec, {"close"}), t \in EventsOf(exec, {"start", "wait", "notice"}) :
              t < c

\* Input and output files were opened and a later stage failed to start.
ClosedAfterStartFailure ==
    /\ MultiStage(exec)
    /\ Cardinality(EventsOf(exec, {"open"})) = 2
    /\ Cardinality(EventsOf(exec, {"close"})) = 2
    /\ Started(exec) # {} /\ ~AllStarted(exec)

\* C27: no entry of the history is empty or has white space at either end,
\* and no two adjacent entries are equal; an Add whose argument is empty or
\* all white space changes nothing.
NoEmptyNoAdjacentDuplicate ==
    /\ [](\A i \in DOMAIN hist.commands :
             /\ hist.commands[i] # <<>>
             /\ hist.commands[i][1] \notin Space
             /\ hist.commands[i][Len(hist.commands[i])] \notin Space
             /\ i < Len(hist.commands) => hist.commands[i] # hist.commands[i + 1])
    /\ [][(HistoryAdd /\ \A i \in DOMAIN call'.val : call'.val[i] \in Space)
             => UNCHANGED <<hist, accepted>>]_vars

\* " a " was added to a history that holds a and b: it went in trimmed.
TrimmedEntryAdded ==
    /\ call.op = "add" /\ call.val = <<" ", "a", " ">>
    /\ hist.commands = << <<"b">>, <<"a">> >>

\* C28: the history never holds more than maxSize entries, and holds the
\* latest min(maxSize, accepted) of the entries Add has appended, in order.
LastOf(seq, n) == IF Len(seq) > n THEN SubSeq(seq, Len(seq) - n + 1, Len(seq)) ELSE seq

HoldsMostRecent ==
    /\ Len(hist.commands) <= maxSize
    /\ hist.commands = LastOf(accepted, maxSize)

\* More than maxSize entries have been appended.
OldestDropped == Len(accepted) > maxSize /\ Len(hist.commands) = maxSize

\* C29: the k-th Previous call in a row from the end position returns the
\* k-th most recent entry, the oldest once k is past the number of entries;
\* Next moves one entry forward and returns "" from the newest entry on; on
\* an empty history both return "".
NavigationClamped ==
    /\ []((call.op = "previous" /\ call.k > 0) =>
             call.val = IF Len(hist.commands) = 0 THEN <<>>
                        ELSE IF call.k >= Len(hist.commands) THEN hist.commands[1]
                        ELSE hist.commands[Len(hist.commands) - call.k + 1])
    /\ [][HistoryNext =>
             IF Len(hist.commands) = 0
             THEN call'.val = <<>> /\ hist' = hist
             ELSE /\ hist'.commands = hist.commands
                  /\ hist'.currentPos = IF hist.currentPos < Len(hist.commands)
                                        THEN hist.currentPos + 1 ELSE hist.currentPos
                  /\ call'.val = IF hist'.currentPos < Len(hist.commands)
                                 THEN hist.commands[hist'.currentPos + 1] ELSE <<>>]_vars

\* Previous has been called more often than there are entries.
PreviousPastOldest ==
    /\ call.op = "previous" /\ call.k > maxSize
    /\ Len(hist.commands) = maxSize
    /\ call.val = hist.commands[1]

\* C30: a Load into a fresh History right after a successful Save gives the
\* commands of the saved History.
SaveLoadRoundTrip ==
    [][(call.op = "save" /\ ~call.err /\ call'.op = "load")
          => loaded'.commands = GetAll(hist)]_vars

NonBlank(segments) == SelectSeq(segments, LAMBDA s : TrimSpace(s) # <<>>)

RECURSIVE AllArgs(_)
AllArgs(commands) ==
    IF commands = <<>> THEN <<>> ELSE Head(commands).Args \o AllArgs(Tail(commands))

AmpCount(s) == Cardinality({i \in DOMAIN s : s[i] = "&"})
BarCount(s) == Cardinality({i \in DOMAIN s : s[i] = Bar})

Escaped(l) == Contains(l, Esc) \/ Contains(l, Caret)

\* What the claim says of the pipeline p parsed from line l.
StagesAndBackground(l, p) ==
    LET trimmed == TrimSpace(l)
        bg == trimmed # <<>> /\ trimmed[Len(trimmed)] = "&"
        body == IF bg THEN SubSeq(trimmed, 1, Len(trimmed) - 1) ELSE trimmed
        segments == NonBlank(Split(body, Bar, <<>>))
    IN /\ p.Background = bg
       /\ Len(p.Commands) = Len(segments)
       /\ \A k \in DOMAIN p.Commands : p.Commands[k] = ParseSegment(TrimSpace(segments[k]))
       /\ AmpCount(Join(AllArgs(p.Commands))) <= AmpCount(body)

\* C31 (as stated): ParsePipeline yields one Command per non-blank segment
\* between "|"s, in order, and Background is set exactly when the trimmed line
\* ends in "&"; that "&" is removed and is in no stage's args.
ParsePipelineAsStated ==
    parsed.fn = "ParsePipeline" => StagesAndBackground(cmdline, parsed.pipeline)

\* C31 (amended): the same for every line that holds neither the ESC byte nor
\* the two characters "^["; a line that holds one of them parses to the empty
\* foreground pipeline, whatever else is on it.
ParsePipelineContract ==
    parsed.fn = "ParsePipeline" =>
        IF Escaped(cmdline) THEN parsed.pipeline = Pipeline
        ELSE StagesAndBackground(cmdline, parsed.pipeline)

\* "a | | b &": two stages, a blank segment skipped, Background set.
BlankSegmentSkipped ==
    /\ parsed.fn = "ParsePipeline"
    /\ parsed.pipeline.Background
    /\ Len(parsed.pipeline.Commands) = 2
    /\ BarCount(cmdline) = 2

RedirectionOperators == {GT, GTGT, LT}

\* The operators that take a file name, reading the tokens from token i on.
RECURSIVE Redirections(_, _)
Redirections(tokens, i) ==
    IF i > Len(tokens) THEN {}
    ELSE IF tokens[i] \in RedirectionOperators
         THEN IF i < Len(tokens) THEN {i} \cup Redirections(tokens, i + 2) ELSE {}
         ELSE Redirections(tokens, i + 1)

RECURSIVE Pick(_, _, _)
Pick(tokens, S, i) ==
    IF i > Len(tokens) THEN <<>>
    ELSE (IF i \in S THEN <<tokens[i]>> ELSE <<>>) \o Pick(tokens, S, i + 1)

Last(S) == CHOOSE i \in S : \A j \in S : j <= i

\* The redirection fields of cmd are those of the last operator of each
\* direction, and its args the tokens at the positions in kept.
ParsedAs(tokens, cmd, kept) ==
    LET ops == Redirections(tokens, 1)
        outs == {i \in ops : tokens[i] \in {GT, GTGT}}
        ins == {i \in ops : tokens[i] = LT}
    IN /\ cmd.OutputFile = IF outs = {} THEN <<>> ELSE tokens[Last(outs) + 1]
       /\ cmd.AppendOutput = (outs # {} /\ tokens[Last(outs)] = GTGT)
       /\ cmd.InputFile = IF ins = {} THEN <<>> ELSE tokens[Last(ins) + 1]
       /\ cmd.Args = expandArgsVariables(Pick(tokens, kept, 1))

\* The positions of the tokens that are neither an operator, nor the file
\* name of one, nor an operator dropped at the end.
OtherTokens(tokens) ==
    LET ops == Redirections(tokens, 1)
    IN {i \in DOMAIN tokens :
          /\ i \notin ops
          /\ i - 1 \notin ops
          /\ ~(i = Len(tokens) /\ tokens[i] \in RedirectionOperators)}

\* C32 (as stated): in ParseCommand an operator takes the next token as its
\* file name whatever it is, an operator that is the last token is dropped, a
\* later redirection of a direction overrides an earlier one, and every other
\* token is kept as an argument, in order.
RedirectionParsingAsStated ==
    parsed.fn = "ParseCommand" =>
        LET tokens == Fields(cmdline)
        IN ParsedAs(tokens, parsed.cmd, OtherTokens(tokens))

\* C32 (amended): the same, except that a token "&" that is not taken as a
\* file name is not kept as an argument: it sets Background.
RedirectionParsing ==
    parsed.fn = "ParseCommand" =>
        LET tokens == Fields(cmdline)
            others == OtherTokens(tokens)
        IN /\ ParsedAs(tokens, parsed.cmd, {i \in others : tokens[i] # Amp})
           /\ parsed.cmd.Background = (\E i \in others : tokens[i] = Amp)

\* "> < >>": "<" is the output file, the last ">>" is dropped.
OperatorTakenAsFilename ==
    /\ parsed.fn = "ParseCommand"
    /\ Fields(cmdline) = <<GT, LT, GTGT>>
    /\ parsed.cmd.OutputFile = LT
    /\ parsed.cmd.Args = <<>>

\* C33: no error ends the read-eval loop, and once standard input is at
\* end-of-input the loop does end: it does not go on reading for ever.
EndOfInputTerminates ==
    (loop.pc # "start" /\ stdin.bytes = <<>>) ~> (loop.pc = "done")

\* Start failed at the i-th exec.Cmd of call r: the ones before it were started.
StartFailedAt(r, i) ==
    /\ r.wired
    /\ i \in DOMAIN r.cmds
    /\ r.cmds[i].name \notin Programs
    /\ ~r.cmds[i].started
    /\ \A j \in 1..(i - 1) : r.cmds[j].started

\* C34: when starting stage k of a multi-stage pipeline fails, no later stage
\* is started, and ExecutePipeline does not return with the stages before k,
\* which it started, never waited for.
StartFailureLeavesNoneRunning ==
    (shell # "prompt" /\ MultiStage(exec)) =>
        \A i \in DOMAIN exec.cmds :
            StartFailedAt(exec, i) =>
                /\ \A j \in DOMAIN exec.cmds : j > i => ~exec.cmds[j].started
                /\ \A j \in 1..(i - 1) : exec.cmds[j].waited

\* C35: once a job is Done its ExitCode never changes again, whichever of
\* monitorJob, BringToForeground and KillJob marked it Done and however the
\* monitor interleaves with those calls.
ExitCodeFixedOnceDone ==
    [][\A id \in DOMAIN job :
          (job[id].State = JobDone /\ id \in DOMAIN job') =>
              job'[id].ExitCode = job[id].ExitCode]_vars

\* C36: a job is Done only after its process has exited: no operation marks
\* a job Done while the process is still running or stopped.
DoneOnlyAfterExit ==
    \A id \in DOMAIN job :
        (job[id].State = JobDone /\ job[id].PID \in DOMAIN proc) =>
            proc[job[id].PID].status \in {"exited", "reaped"}

\* C37: every key k of the map satisfies 1 <= k < nextID and maps to the job
\* whose ID is k; nextID is 1 plus the number of AddJob calls made so far;
\* RemoveJob and CleanupDoneJobs never change nextID.
KeysBelowNextID ==
    /\ [](/\ \A k \in jobs : 1 <= k /\ k < nextID /\ k \in DOMAIN job /\ job[k].ID = k
          /\ nextID = 1 + Len(issued))
    /\ [][(jobs' # jobs /\ jobs' \subseteq jobs) => nextID' = nextID]_vars

\* Two jobs were added and both entries are gone: nextID is still 3.
TableEmptiedCounterKept == Len(issued) = 2 /\ jobs = {} /\ nextID = 3

AtEnd(h) == h.currentPos = Len(h.commands)

\* while the history is not empty the cursor is within 0..len(commands)
CursorInRange ==
    hist.commands # <<>> => 0 <= hist.currentPos /\ hist.currentPos <= Len(hist.commands)

\* C39 (as stated): while the history is not empty 0 <= currentPos <=
\* len(commands); Add, Reset and Load always leave the cursor at
\* len(commands); Previous and Next never change the commands.
CursorAsStated ==
    /\ []CursorInRange
    /\ [][/\ (HistoryAdd \/ Reset \/ HistoryLoad) => AtEnd(hist')
          /\ (HistoryPrevious \/ HistoryNext) => hist'.commands = hist.commands]_vars

\* C39 (amended): the same, for an Add whose trimmed argument is not empty
\* and a Load that can open the history file; an Add of a blank string and a
\* Load with no file return at once and leave the cursor where it was.
CursorContract ==
    /\ []CursorInRange
    /\ [][/\ (HistoryAdd /\ TrimSpace(call'.val) # <<>>) => AtEnd(hist')
          /\ Reset => AtEnd(hist')
          /\ (HistoryLoad /\ histFile.exists) => AtEnd(hist')
          /\ (HistoryAdd /\ TrimSpace(call'.val) = <<>>) => hist' = hist
          /\ (HistoryLoad /\ ~histFile.exists) => hist' = hist
          /\ (HistoryPrevious \/ HistoryNext) => hist'.commands = hist.commands]_vars

\* Load has appended the file's lines to a History and the cursor is at the end.
LoadedOntoHistory ==
    /\ call.op = "load" /\ ~loaded.made
    /\ histFile.exists /\ histFile.bytes # <<>>
    /\ Len(hist.commands) = maxSize
    /\ AtEnd(hist)

\* The statements at which a thread holds no lock: those that block or send
\* a signal, those that take the lock, and those outside every section.
UnlockedPcs ==
    {"idle", "returned", "rlock", "lock", "lock1", "lock2", "test", "cont", "signal",
     "wait", "print"}

LockFreeWhereUnlocked ==
    /\ caller.pc \in UnlockedPcs => ~Holds(Shell)
    /\ \A id \in DOMAIN mon : mon[id].pc \in {"wait", "lock", "done"} => ~Holds(id)

\* C38: the table lock is never held across a blocking step (a wait on a
\* process, the sending of a signal, the taking of the lock itself), a thread
\* that holds the lock eventually releases it, and a monitor whose wait on
\* its process has returned eventually takes the lock.
TableLockDiscipline ==
    /\ []LockFreeWhereUnlocked
    /\ \A t \in 0..MaxLocked : Holds(t) ~> ~Holds(t)
    /\ \A id \in 1..MaxLocked :
          (id \in DOMAIN mon /\ mon[id].pc = "lock") ~>
              (id \in DOMAIN mon /\ mon[id].pc = "update")

\* a monitor whose wait has returned is waiting for the lock while the shell
\* holds it inside BringToForeground or KillJob
MonitorWaitsWhileShellHolds ==
    \E id \in DOMAIN mon : mon[id].pc = "lock" /\ mutex.w = Shell /\ caller.op \in {"fg", "kill"}
====
